---- MODULE Spec2Model ----
(***************************************************************************)
(* A model of the Vite manifest resolver (type Vite): the production tag   *)
(* generator, the dynamic-import walker and the registry of preloaded      *)
(* assets.                                                                 *)
(*                                                                         *)
(* Go strings are sequences of tokens.  A token is "/", ".", "?" or a      *)
(* word without any of these three characters, so that path cleaning,      *)
(* suffix tests and the style-path pattern act on the text as the code     *)
(* does.  A Go map[string]any is a function whose DOMAIN is the set of     *)
(* keys present; a value of type any is a record [t, v] with its dynamic   *)
(* type t.                                                                 *)
(***************************************************************************)
EXTENDS Integers, Sequences, FiniteSets, TLC

\* ------------------------------------------------------------------ strings

Slash == "/"
Dot == "."
QMark == "?"

\* A one-word string.
S(w) == <<w>>

\* name.ext
F(name, ext) == <<name, Dot, ext>>

\* strings.TrimLeft(path, "/")
RECURSIVE TrimLeftSlash(_)
TrimLeftSlash(p) ==
    IF p # <<>> /\ Head(p) = Slash THEN TrimLeftSlash(Tail(p)) ELSE p

\* strings.HasSuffix(s, suffix)
HasSuffix(s, suffix) ==
    /\ Len(s) >= Len(suffix)
    /\ SubSeq(s, Len(s) - Len(suffix) + 1, Len(s)) = suffix

\* The elements of a path between its separators.
RECURSIVE SplitPath(_)
SplitPath(p) ==
    IF p = <<>> THEN << <<>> >>
    ELSE LET rest == SplitPath(Tail(p))
         IN  IF Head(p) = Slash
             THEN << <<>> >> \o rest
             ELSE << <<Head(p)>> \o Head(rest) >> \o Tail(rest)

RECURSIVE JoinElems(_)
JoinElems(elems) ==
    IF elems = <<>> THEN <<>>
    ELSE IF Len(elems) = 1 THEN elems[1]
    ELSE elems[1] \o <<Slash>> \o JoinElems(Tail(elems))

\* filepath.Clean's pass over the elements: empty and "." elements go, ".."
\* removes the element before it (or is dropped at the root).
RECURSIVE CleanElems(_, _, _)
CleanElems(elems, out, rooted) ==
    IF elems = <<>> THEN out
    ELSE LET e == Head(elems)
             next ==
               IF e = <<>> \/ e = <<Dot>> THEN out
               ELSE IF e = <<Dot, Dot>>
                    THEN IF out # <<>> /\ out[Len(out)] # <<Dot, Dot>>
                         THEN SubSeq(out, 1, Len(out) - 1)
                         ELSE IF rooted THEN out ELSE Append(out, e)
                    ELSE Append(out, e)
         IN  CleanElems(Tail(elems), next, rooted)

\* filepath.Clean
Clean(p) ==
    IF p = <<>> THEN <<Dot>>
    ELSE LET rooted == Head(p) = Slash
             body == JoinElems(CleanElems(SplitPath(p), <<>>, rooted))
         IN  IF rooted THEN <<Slash>> \o body
             ELSE IF body = <<>> THEN <<Dot>> ELSE body

\* filepath.Join(a, b): the non-empty elements joined by "/" and cleaned.
filepathJoin(a, b) ==
    IF a = <<>> /\ b = <<>> THEN <<>>
    ELSE IF a = <<>> THEN Clean(b)
    ELSE IF b = <<>> THEN Clean(a)
    ELSE Clean(a \o <<Slash>> \o b)

\* fmt.Sprintf("%s/%s", a, b)
SprintfSlash(a, b) == a \o <<Slash>> \o b

\* ------------------------------------------------------- values of type any

Nil == [t |-> "nil", v |-> <<>>]
Str(s) == [t |-> "string", v |-> s]
Bool(b) == [t |-> "bool", v |-> IF b THEN S("true") ELSE S("false")]
IntValue(n) == [t |-> "int", v |-> n]

\* A nil pointer stored in an any: the value is not the nil interface.
NilPointer == [t |-> "pointer", v |-> S("<nil>")]

DecimalDigits == <<"0", "1", "2", "3", "4", "5", "6", "7", "8", "9">>

RECURSIVE Digits(_)
Digits(n) ==
    IF n < 10
    THEN <<DecimalDigits[n + 1]>>
    ELSE Digits(n \div 10) \o <<DecimalDigits[(n % 10) + 1]>>

\* strconv.Itoa, which is what %v prints for an int.
Itoa(n) == IF n < 0 THEN <<"-">> \o Digits(0 - n) ELSE Digits(n)

\* fmt.Sprintf("%v", x) for x not nil.
Sprintv(x) == IF x.t = "int" THEN Itoa(x.v) ELSE x.v

IsStr(x) == x.t = "string"

\* m[k] of a Go map: the zero value (nil) when the key is absent.
MapGet(m, k) == IF k \in DOMAIN m THEN m[k] ELSE Nil

\* for k, v := range overlay { m[k] = v }
MapMerge(m, overlay) ==
    [k \in DOMAIN m \cup DOMAIN overlay |->
        IF k \in DOMAIN overlay THEN overlay[k] ELSE m[k]]

EmptyMap == [k \in {} |-> Nil]

\* ------------------------------------------------------------------ chunks

\* chunk[field].(T): the field is present (a field of another dynamic type
\* fails the assertion exactly as an absent one does).
Has(chunk, field) == field \in DOMAIN chunk

\* A nil chunk reads like a chunk without fields.
NilChunk == EmptyMap

\* manifest[key].(map[string]any)
InManifest(manifest, key) == key \in DOMAIN manifest

\* --------------------------------------------------------------- resolvers

\* An AttributeResolver supplied by the caller: it returns nil for the assets
\* whose URL ends in one of nilOn, and the map attrs for every other asset.
NilResult == [isNil |-> TRUE, m |-> EmptyMap]
MapResult(m) == [isNil |-> FALSE, m |-> m]

ApplyResolver(r, src, url, chunk, manifest) ==
    IF \E f \in r.nilOn : HasSuffix(url, f) THEN NilResult ELSE MapResult(r.attrs)

\* ------------------------------------------------------------- tag factory

CssSuffixes == {"css", "less", "sass", "scss", "styl", "stylus", "pcss", "postcss"}

\* Mutant: whatever follows the question mark is a query string.
isCSSPathAnyQuery(path) ==
    \E i \in 1..Len(path) :
        /\ path[i] = Dot
        /\ i + 1 <= Len(path)
        /\ path[i + 1] \in CssSuffixes
        /\ \/ i + 1 = Len(path)
           \/ path[i + 2] = QMark

\* \.(css|less|sass|scss|styl|stylus|pcss|postcss)(\?[^\.]*)?$
isCSSPath(path) ==
    \E i \in 1..Len(path) :
        /\ path[i] = Dot
        /\ i + 1 <= Len(path)
        /\ path[i + 1] \in CssSuffixes
        /\ \/ i + 1 = Len(path)
           \/ /\ path[i + 2] = QMark
              /\ \A j \in (i + 3)..Len(path) : path[j] # Dot

\* Mutant: only nil attributes are left out.
parseAttributesKeepingFalse(attributes) ==
    { IF attributes[k] = Bool(TRUE)
      THEN [key |-> k, bare |-> TRUE, value |-> <<>>]
      ELSE [key |-> k, bare |-> FALSE, value |-> Sprintv(attributes[k])]
      : k \in { a \in DOMAIN attributes : attributes[a] # Nil } }

\* parseAttributes taking the empty string for an absent value.
parseAttributesDroppingEmpty(attributes) ==
    { IF attributes[k] = Bool(TRUE)
      THEN [key |-> k, bare |-> TRUE, value |-> <<>>]
      ELSE [key |-> k, bare |-> FALSE, value |-> Sprintv(attributes[k])]
      : k \in { a \in DOMAIN attributes :
                  /\ attributes[a] # Nil
                  /\ attributes[a] # Bool(FALSE)
                  /\ attributes[a] # Str(<<>>) } }

\* parseAttributes: one item per attribute that is neither nil nor false.
\* The items of the Go slice are in map iteration order; a tag is read here
\* up to the order of its attributes.
parseAttributes(attributes) ==
    { IF attributes[k] = Bool(TRUE)
      THEN [key |-> k, bare |-> TRUE, value |-> <<>>]
      ELSE [key |-> k, bare |-> FALSE, value |-> Sprintv(attributes[k])]
      : k \in { a \in DOMAIN attributes :
                  attributes[a] # Nil /\ attributes[a] # Bool(FALSE) } }

Tag(el, attributes) == [el |-> el, items |-> parseAttributes(attributes)]

\* The empty string returned in place of a tag.
NoTag == [el |-> "", items |-> {}]

\* chunk[key] as a value of type any: the integrity field holds whatever the
\* manifest gives it, the other fields read here are strings.
FieldValue(chunk, key) ==
    IF key = "integrity" THEN chunk[key] ELSE Str(chunk[key])

\* Mutant: the integrity field is copied whatever the configured key.
IntegrityOfField(v, chunk) ==
    IF chunk # NilChunk /\ Has(chunk, "integrity")
    THEN [integrity |-> FieldValue(chunk, "integrity")]
    ELSE EmptyMap

\* if v.integrityKey != "" && chunk != nil { if integrity, exists := ... }
IntegrityOf(v, chunk) ==
    IF v.integrityKey # "" /\ chunk # NilChunk /\ Has(chunk, v.integrityKey)
    THEN [integrity |-> FieldValue(chunk, v.integrityKey)]
    ELSE EmptyMap

\* Mutant: a key an earlier resolver returned is kept.
RECURSIVE ApplyAllFirstWins(_, _, _, _, _, _)
ApplyAllFirstWins(resolvers, attributes, src, url, chunk, manifest) ==
    IF resolvers = <<>> THEN attributes
    ELSE ApplyAllFirstWins(
             Tail(resolvers),
             MapMerge(ApplyResolver(Head(resolvers), src, url, chunk, manifest).m,
                      attributes),
             src, url, chunk, manifest)

\* The resolvers of one kind applied in registration order, later keys
\* overriding earlier ones; a nil result adds nothing.
RECURSIVE ApplyAll(_, _, _, _, _, _)
ApplyAll(resolvers, attributes, src, url, chunk, manifest) ==
    IF resolvers = <<>> THEN attributes
    ELSE ApplyAll(Tail(resolvers),
                  MapMerge(attributes,
                           ApplyResolver(Head(resolvers), src, url, chunk, manifest).m),
                  src, url, chunk, manifest)

resolveScriptTagAttributes(v, src, url, chunk, manifest) ==
    ApplyAll(v.scriptTagAttributeResolvers, IntegrityOf(v, chunk),
             src, url, chunk, manifest)

resolveStylesheetTagAttributes(v, src, url, chunk, manifest) ==
    ApplyAll(v.styleTagAttributeResolvers, IntegrityOf(v, chunk),
             src, url, chunk, manifest)

\* Mutant: a nil result is skipped like an empty map.
RECURSIVE ApplyPreloadNilAsEmpty(_, _, _, _, _, _)
ApplyPreloadNilAsEmpty(resolvers, attributes, src, url, chunk, manifest) ==
    IF resolvers = <<>> THEN MapResult(attributes)
    ELSE ApplyPreloadNilAsEmpty(
             Tail(resolvers),
             MapMerge(attributes,
                      ApplyResolver(Head(resolvers), src, url, chunk, manifest).m),
             src, url, chunk, manifest)

\* The preload resolvers in registration order; the first nil result ends the
\* resolution with nil.
RECURSIVE ApplyPreload(_, _, _, _, _, _)
ApplyPreload(resolvers, attributes, src, url, chunk, manifest) ==
    IF resolvers = <<>> THEN MapResult(attributes)
    ELSE LET resolved == ApplyResolver(Head(resolvers), src, url, chunk, manifest)
         IN  IF resolved.isNil THEN NilResult
             ELSE ApplyPreload(Tail(resolvers), MapMerge(attributes, resolved.m),
                               src, url, chunk, manifest)

resolvePreloadTagAttributes(v, src, url, chunk, manifest) ==
    LET base ==
          IF isCSSPath(url)
          THEN [rel |-> Str(S("preload")), as |-> Str(S("style")),
                href |-> Str(url), nonce |-> Str(v.nonce),
                crossorigin |-> MapGet(resolveStylesheetTagAttributes(
                                         v, src, url, chunk, manifest), "crossorigin")]
          ELSE [rel |-> Str(S("modulepreload")), as |-> Str(S("script")),
                href |-> Str(url), nonce |-> Str(v.nonce),
                crossorigin |-> MapGet(resolveScriptTagAttributes(
                                         v, src, url, chunk, manifest), "crossorigin")]
    IN  ApplyPreload(v.preloadTagAttributeResolvers,
                     MapMerge(base, IntegrityOf(v, chunk)),
                     src, url, chunk, manifest)

makeScriptTagWithAttributes(v, url, attributes) ==
    Tag("script",
        MapMerge([type |-> Str(S("module")), src |-> Str(url), nonce |-> Str(v.nonce)],
                 attributes))

makeStylesheetTagWithAttributes(v, url, attributes) ==
    Tag("link",
        MapMerge([rel |-> Str(S("stylesheet")), href |-> Str(url), nonce |-> Str(v.nonce)],
                 attributes))

makeTagForChunk(v, src, url, chunk, manifest) ==
    IF isCSSPath(url)
    THEN makeStylesheetTagWithAttributes(
             v, url, resolveStylesheetTagAttributes(v, src, url, chunk, manifest))
    ELSE makeScriptTagWithAttributes(
             v, url, resolveScriptTagAttributes(v, src, url, chunk, manifest))

\* Mutant: the attributes are stored as they are.
StorePreloadedWithHref(v, url, attributes) ==
    IF attributes.isNil
    THEN [tag |-> NoTag, v |-> v]
    ELSE [tag |-> Tag("link", attributes.m),
          v |-> [v EXCEPT !.preloadedAssets =
                    MapMerge(@, [u \in {url} |-> attributes.m])]]

\* makePreloadTagForChunk once the attributes are resolved: the tag ("" when
\* a resolver suppresses it) and the instance with the asset stored in
\* preloadedAssets.
StorePreloaded(v, url, attributes) ==
    IF attributes.isNil
    THEN [tag |-> NoTag, v |-> v]
    ELSE [tag |-> Tag("link", attributes.m),
          v |-> [v EXCEPT !.preloadedAssets =
                    MapMerge(@, [u \in {url} |->
                                   [k \in DOMAIN attributes.m \ {"href"} |->
                                       attributes.m[k]]])]]

makePreloadTagForChunk(v, src, url, chunk, manifest) ==
    StorePreloaded(v, url, resolvePreloadTagAttributes(v, src, url, chunk, manifest))

\* assetPath with no assetPathResolver set.
assetPath(v, path, secure) == <<Slash>> \o TrimLeftSlash(path)

\* ------------------------------------------------- dynamic-import walker

\* A range over the manifest visits its keys in an order the Go runtime
\* chooses; order is that sequence of keys.  The chunk found by
\*     for key, value := range manifest { if value["file"] == file { ...; break } }
\* is the first one in it with that file.
RECURSIVE FirstWithFile(_, _, _)
FirstWithFile(manifest, order, file) ==
    IF order = <<>> THEN <<>>
    ELSE IF Has(manifest[Head(order)], "file") /\ manifest[Head(order)].file = file
         THEN <<Head(order)>>
         ELSE FirstWithFile(manifest, Tail(order), file)

\* attributes[k].(string), "" when the assertion fails.
Text(attributes, k) ==
    IF k \in DOMAIN attributes /\ IsStr(attributes[k]) THEN attributes[k].v ELSE <<>>

\* createPrefetchAsset without the check of the registry.
PrefetchAssetOfUnchecked(v, url, attributes) ==
    IF attributes.isNil THEN <<>>
    ELSE << [Rel |-> S("prefetch"), FetchPriority |-> S("low"), Href |-> url,
             As |-> Text(attributes.m, "as"), Nonce |-> v.nonce,
             Crossorigin |-> Text(attributes.m, "crossorigin"),
             Integrity |-> Text(attributes.m, "integrity")] >>

\* createPrefetchAsset once the URL and the attributes are resolved: no
\* asset (nil) or one.
PrefetchAssetOf(v, url, attributes) ==
    IF url \in DOMAIN v.preloadedAssets THEN <<>>
    ELSE IF attributes.isNil THEN <<>>
    ELSE << [Rel |-> S("prefetch"), FetchPriority |-> S("low"), Href |-> url,
             As |-> Text(attributes.m, "as"), Nonce |-> v.nonce,
             Crossorigin |-> Text(attributes.m, "crossorigin"),
             Integrity |-> Text(attributes.m, "integrity")] >>

PrefetchURL(v, file) ==
    assetPath(v, SprintfSlash(v.config.BuildDirectory, file), FALSE)

createPrefetchAsset(v, src, file, chunk, manifest) ==
    PrefetchAssetOf(v, PrefetchURL(v, file),
                    resolvePreloadTagAttributes(v, src, PrefetchURL(v, file),
                                                chunk, manifest))

\* The chunk a css path is looked up as: the one found in the manifest, or
\* a minimal one.
CssChunk(manifest, order, cssStr) ==
    IF FirstWithFile(manifest, order, cssStr) # <<>>
    THEN manifest[FirstWithFile(manifest, order, cssStr)[1]]
    ELSE [file |-> cssStr]

\* The loop over a chunk's css list.
RECURSIVE CollectCss(_, _, _, _)
CollectCss(v, css, manifest, order) ==
    IF css = <<>> THEN <<>>
    ELSE createPrefetchAsset(v, Head(css), Head(css),
                             CssChunk(manifest, order, Head(css)), manifest)
            \o CollectCss(v, Tail(css), manifest, order)

\* The src of a chunk that has none: the key found for its file.
SrcOf(manifest, order, chunk) ==
    IF Has(chunk, "src") THEN chunk.src
    ELSE IF FirstWithFile(manifest, order, chunk.file) # <<>>
    THEN FirstWithFile(manifest, order, chunk.file)[1]
    ELSE <<>>

\* "Add the current chunk": the asset of the chunk's own file.
CollectOwn(v, chunk, manifest, order) ==
    IF Has(chunk, "file")
    THEN createPrefetchAsset(v, SrcOf(manifest, order, chunk), chunk.file,
                             chunk, manifest)
    ELSE <<>>

\* The walk carries acc: the assets appended so far and discoveredImports.
NoAssets == [assets |-> <<>>, discoveredImports |-> {}]

AppendAssets(acc, list) == [acc EXCEPT !.assets = @ \o list]

\* (*discoveredImports)[importStr] = true
Mark(acc, importStr) == [acc EXCEPT !.discoveredImports = @ \cup {importStr}]

\* chunk[field].([]any), no element when the assertion fails.
ListOf(chunk, field) == IF Has(chunk, field) THEN chunk[field] ELSE <<>>

RECURSIVE collectImportsRecursively(_, _, _, _, _)

\* One key of a chunk's imports or dynamicImports: skipped when discovered,
\* else marked and, when the manifest has it, expanded.
CollectKey(v, importStr, manifest, acc, order) ==
    IF importStr \in acc.discoveredImports THEN acc
    ELSE IF InManifest(manifest, importStr)
    THEN collectImportsRecursively(v, manifest[importStr], manifest,
                                   Mark(acc, importStr), order)
    ELSE Mark(acc, importStr)

\* Mutant: the keys are marked and no chunk is expanded.
CollectKeysShallow(v, keys, manifest, acc, order) ==
    [acc EXCEPT !.discoveredImports = @ \cup { keys[i] : i \in DOMAIN keys }]

\* The loop over a chunk's imports, and the same loop over its
\* dynamicImports.
RECURSIVE CollectKeys(_, _, _, _, _)
CollectKeys(v, keys, manifest, acc, order) ==
    IF keys = <<>> THEN acc
    ELSE CollectKeys(v, Tail(keys), manifest,
                     CollectKey(v, Head(keys), manifest, acc, order), order)

\* The chunk's own asset, its imports, its dynamicImports, its css.
collectImportsRecursively(v, chunk, manifest, acc, order) ==
    AppendAssets(
        CollectKeys(v, ListOf(chunk, "dynamicImports"), manifest,
            CollectKeys(v, ListOf(chunk, "imports"), manifest,
                AppendAssets(acc, CollectOwn(v, chunk, manifest, order)),
                order),
            order),
        CollectCss(v, ListOf(chunk, "css"), manifest, order))

\* uniquePrefetchAssets: the first asset of each href, in order.
RECURSIVE UniqueFrom(_, _)
UniqueFrom(assets, seen) ==
    IF assets = <<>> THEN <<>>
    ELSE IF Head(assets).Href \in seen THEN UniqueFrom(Tail(assets), seen)
    ELSE <<Head(assets)>> \o UniqueFrom(Tail(assets), seen \cup {Head(assets).Href})

\* Mutant: the last asset of each href is kept.
RECURSIVE uniqueKeepLast(_)
uniqueKeepLast(assets) ==
    IF assets = <<>> THEN <<>>
    ELSE IF \E i \in 2..Len(assets) : assets[i].Href = Head(assets).Href
         THEN uniqueKeepLast(Tail(assets))
         ELSE <<Head(assets)>> \o uniqueKeepLast(Tail(assets))

uniquePrefetchAssets(assets) == UniqueFrom(assets, {})

\* The dynamicImports key of an entry is expanded when its chunk has a file
\* ending in .js or .css.
TopLevelAccepted(manifest, importStr) ==
    /\ InManifest(manifest, importStr)
    /\ Has(manifest[importStr], "file")
    /\ \/ HasSuffix(manifest[importStr].file, <<Dot, "js">>)
       \/ HasSuffix(manifest[importStr].file, <<Dot, "css">>)

\* The loop over one entry's dynamicImports.
RECURSIVE CollectTop(_, _, _, _, _)
CollectTop(v, dynamicImports, manifest, acc, order) ==
    IF dynamicImports = <<>> THEN acc
    ELSE CollectTop(v, Tail(dynamicImports), manifest,
                    IF TopLevelAccepted(manifest, Head(dynamicImports))
                    THEN collectImportsRecursively(
                             v, manifest[Head(dynamicImports)], manifest, acc, order)
                    ELSE acc,
                    order)

\* The loop over the entry points.
RECURSIVE CollectEntries(_, _, _, _, _)
CollectEntries(v, entrypoints, manifest, acc, order) ==
    IF entrypoints = <<>> THEN acc
    ELSE CollectEntries(v, Tail(entrypoints), manifest,
                        IF InManifest(manifest, Head(entrypoints))
                        THEN CollectTop(v, ListOf(manifest[Head(entrypoints)],
                                                  "dynamicImports"),
                                        manifest, acc, order)
                        ELSE acc,
                        order)

collectDynamicImports(v, entrypoints, manifest, order) ==
    uniquePrefetchAssets(CollectEntries(v, entrypoints, manifest, NoAssets, order).assets)

\* ------------------------------------------------------- prefetch script

\* json.Marshal of a PrefetchAsset: as, nonce, crossorigin and integrity are
\* omitted when empty.
MarshalAsset(a) ==
    LET optional == { k \in {"as", "nonce", "crossorigin", "integrity"} :
                        (CASE k = "as" -> a.As
                           [] k = "nonce" -> a.Nonce
                           [] k = "crossorigin" -> a.Crossorigin
                           [] k = "integrity" -> a.Integrity) # <<>> }
    IN  [k \in {"rel", "fetchpriority", "href"} \cup optional |->
            CASE k = "rel" -> a.Rel
              [] k = "fetchpriority" -> a.FetchPriority
              [] k = "href" -> a.Href
              [] k = "as" -> a.As
              [] k = "nonce" -> a.Nonce
              [] k = "crossorigin" -> a.Crossorigin
              [] k = "integrity" -> a.Integrity]

MarshalAssets(assets) == [i \in 1..Len(assets) |-> MarshalAsset(assets[i])]

\* The empty string returned in place of a script.
NoScript == [el |-> "", loader |-> ""]

\* Mutant: the two strategies take each other's loader.
generatePrefetchScriptSwapped(v, assets, strategy) ==
    LET nonceAttr == IF v.nonce # <<>>
                     THEN {[key |-> "nonce", bare |-> FALSE, value |-> v.nonce]}
                     ELSE {}
    IN  IF Len(assets) = 0 THEN NoScript
        ELSE IF strategy = "aggressive"
        THEN [el |-> "script", items |-> nonceAttr, loader |-> "waterfall",
              event |-> v.prefetchEvent, assets |-> MarshalAssets(assets),
              count |-> v.prefetchConcurrently]
        ELSE IF strategy = "waterfall"
        THEN [el |-> "script", items |-> nonceAttr, loader |-> "aggressive",
              event |-> v.prefetchEvent, assets |-> MarshalAssets(assets)]
        ELSE NoScript

\* generatePrefetchScript: the inline script with its loader, the event it
\* waits for, the embedded asset list and (waterfall) the concurrency.
generatePrefetchScript(v, assets, strategy) ==
    LET nonceAttr == IF v.nonce # <<>>
                     THEN {[key |-> "nonce", bare |-> FALSE, value |-> v.nonce]}
                     ELSE {}
    IN  IF Len(assets) = 0 THEN NoScript
        ELSE IF strategy = "waterfall"
        THEN [el |-> "script", items |-> nonceAttr, loader |-> "waterfall",
              event |-> v.prefetchEvent, assets |-> MarshalAssets(assets),
              count |-> v.prefetchConcurrently]
        ELSE IF strategy = "aggressive"
        THEN [el |-> "script", items |-> nonceAttr, loader |-> "aggressive",
              event |-> v.prefetchEvent, assets |-> MarshalAssets(assets)]
        ELSE NoScript

\* ------------------------------------------------- the waterfall loader

\* The script of lines 1017-1057 as the browser runs it.  The page holds the
\* array passed to loadNext (queue), the pending window.setTimeout callbacks
\* of loadNext (timers, each with its count argument), the links appended to
\* the document whose load has neither completed nor failed (inflight), and
\* the assets requested so far.  A callback runs to completion.

\* if (count > assets.length) { count = assets.length; ... }
TakeCount(count, queue) == IF count > Len(queue) THEN Len(queue) ELSE count

\* Mutant: no link gets the onload and onerror handlers.
LinksUnchained(queue, k) ==
    { [asset |-> queue[i], chained |-> FALSE] : i \in 1..k }

\* The links the while loop makes from the first k assets of queue: a link
\* gets the onload and onerror handlers when assets are left after its shift.
LinksOf(queue, k) ==
    { [asset |-> queue[i], chained |-> Len(queue) - i > 0] : i \in 1..k }

\* Mutant: a completed load calls loadNext twice.
ContinuationTwice(link, queue) ==
    IF link.chained
    THEN <<[count |-> 1, from |-> "link", left |-> Len(queue)],
           [count |-> 1, from |-> "link", left |-> Len(queue)]>>
    ELSE <<>>

\* link.onload = () => loadNext(assets, 1), and the same for onerror: the
\* setTimeout callbacks a completed or failed load adds, each with its count,
\* where it was set and the number of assets left in the queue at that moment.
Continuation(link, queue) ==
    IF link.chained
    THEN <<[count |-> 1, from |-> "link", left |-> Len(queue)]>>
    ELSE <<>>

\* seq without its i-th element.
RemoveAt(seq, i) == SubSeq(seq, 1, i - 1) \o SubSeq(seq, i + 1, Len(seq))

\* No step of the loader yet.
NoStep ==
    [op |-> "none", count |-> 0, from |-> "none", left |-> 0, before |-> 0,
     started |-> 0]

\* The page that received script, before the prefetch event.
PageOf(script) ==
    [phase |-> "waiting", event |-> script.event, assets |-> script.assets,
     count |-> script.count, queue |-> <<>>, timers |-> <<>>, inflight |-> {},
     requested |-> <<>>, step |-> NoStep]

\* ------------------------------------------------------- production tags

\* The rendering carries st: the instance, the preloads and tags appended
\* so far, and processedPreloads.
NoTags(v) == [v |-> v, preloads |-> <<>>, tags |-> <<>>, processedPreloads |-> {}]

\* if preloadTag != "" { preloads = append(preloads, preloadTag);
\*                       processedPreloads[url] = true }
AppendPreload(st, url, preload) ==
    IF preload.tag = NoTag THEN [st EXCEPT !.v = preload.v]
    ELSE [st EXCEPT !.v = preload.v,
                    !.preloads = Append(@, preload.tag),
                    !.processedPreloads = @ \cup {url}]

\* Mutant: the preload is made without looking at processedPreloads.
AddPreloadUnchecked(st, src, url, chunk, manifest) ==
    AppendPreload(st, url, makePreloadTagForChunk(st.v, src, url, chunk, manifest))

\* if !processedPreloads[url] { preloadTag := v.makePreloadTagForChunk(...); ... }
AddPreload(st, src, url, chunk, manifest) ==
    IF url \in st.processedPreloads THEN st
    ELSE AppendPreload(st, url,
                       makePreloadTagForChunk(st.v, src, url, chunk, manifest))

\* AddTag leaving out a tag that the output already has.
AddTagOnce(st, src, url, chunk, manifest) ==
    IF \E i \in DOMAIN st.tags :
           st.tags[i] = makeTagForChunk(st.v, src, url, chunk, manifest)
    THEN st
    ELSE [st EXCEPT !.tags = Append(@, makeTagForChunk(st.v, src, url, chunk, manifest))]

\* tags = append(tags, v.makeTagForChunk(...))
AddTag(st, src, url, chunk, manifest) ==
    [st EXCEPT !.tags = Append(@, makeTagForChunk(st.v, src, url, chunk, manifest))]

\* v.assetPath(filepath.Join(buildDirectory, file), false)
ChunkURL(v, buildDirectory, file) ==
    assetPath(v, filepathJoin(buildDirectory, file), FALSE)

\* One css path: its preload, then its tag.
ProcessCssFile(st, cssStr, cssURL, manifest) ==
    AddTag(AddPreload(st, cssStr, cssURL, [file |-> cssStr], manifest),
           cssStr, cssURL, [file |-> cssStr], manifest)

\* The loop over a css list (of an import, or of the entry itself).
RECURSIVE ProcessCss(_, _, _, _)
ProcessCss(st, css, buildDirectory, manifest) ==
    IF css = <<>> THEN st
    ELSE ProcessCss(ProcessCssFile(st, Head(css),
                                   ChunkURL(st.v, buildDirectory, Head(css)),
                                   manifest),
                    Tail(css), buildDirectory, manifest)

\* The preload of an import's file.
ProcessImportFile(st, importStr, importChunk, buildDirectory, manifest) ==
    IF Has(importChunk, "file")
    THEN AddPreload(st, importStr,
                    ChunkURL(st.v, buildDirectory, importChunk.file),
                    importChunk, manifest)
    ELSE st

\* One key of an entry's imports: the preload of its file, then its css.
ProcessImport(st, importStr, buildDirectory, manifest) ==
    IF InManifest(manifest, importStr)
    THEN ProcessCss(ProcessImportFile(st, importStr, manifest[importStr],
                                      buildDirectory, manifest),
                    ListOf(manifest[importStr], "css"), buildDirectory, manifest)
    ELSE st

\* Mutant: the imports of an import are processed too.
RECURSIVE ProcessImportsDeep(_, _, _, _)
ProcessImportsDeep(st, imports, buildDirectory, manifest) ==
    IF imports = <<>> THEN st
    ELSE ProcessImportsDeep(
             IF InManifest(manifest, Head(imports))
             THEN ProcessImportsDeep(
                      ProcessImport(st, Head(imports), buildDirectory, manifest),
                      ListOf(manifest[Head(imports)], "imports"),
                      buildDirectory, manifest)
             ELSE st,
             Tail(imports), buildDirectory, manifest)

\* The loop over an entry's imports.
RECURSIVE ProcessImports(_, _, _, _)
ProcessImports(st, imports, buildDirectory, manifest) ==
    IF imports = <<>> THEN st
    ELSE ProcessImports(ProcessImport(st, Head(imports), buildDirectory, manifest),
                        Tail(imports), buildDirectory, manifest)

\* Mutant: the entry's own tag is added after its css.
ProcessChunkTagLast(st, entrypoint, url, chunk, buildDirectory, manifest) ==
    AddTag(
        ProcessCss(
            ProcessImports(AddPreload(st, entrypoint, url, chunk, manifest),
                           ListOf(chunk, "imports"), buildDirectory, manifest),
            ListOf(chunk, "css"), buildDirectory, manifest),
        entrypoint, url, chunk, manifest)

\* An entry's chunk: its preload, its imports, its own tag, its css.
ProcessChunk(st, entrypoint, url, chunk, buildDirectory, manifest) ==
    ProcessCss(
        AddTag(
            ProcessImports(AddPreload(st, entrypoint, url, chunk, manifest),
                           ListOf(chunk, "imports"), buildDirectory, manifest),
            entrypoint, url, chunk, manifest),
        ListOf(chunk, "css"), buildDirectory, manifest)

\* One entry point: skipped when the manifest has no chunk for it or the
\* chunk has no file.
ProcessEntry(st, entrypoint, buildDirectory, manifest) ==
    IF ~InManifest(manifest, entrypoint) THEN st
    ELSE IF ~Has(manifest[entrypoint], "file") THEN st
    ELSE ProcessChunk(st, entrypoint,
                      ChunkURL(st.v, buildDirectory, manifest[entrypoint].file),
                      manifest[entrypoint], buildDirectory, manifest)

RECURSIVE ProcessEntries(_, _, _, _)
ProcessEntries(st, entrypoints, buildDirectory, manifest) ==
    IF entrypoints = <<>> THEN st
    ELSE ProcessEntries(ProcessEntry(st, Head(entrypoints), buildDirectory, manifest),
                        Tail(entrypoints), buildDirectory, manifest)

\* Mutant: the content tags are joined before the preloads.
JoinTagsContentFirst(preloads, tags) == tags \o preloads

\* strings.Join(preloads, "") + strings.Join(tags, "")
JoinTags(preloads, tags) == preloads \o tags

\* base + prefetchScript
WithScript(base, prefetchScript) ==
    IF prefetchScript = NoScript THEN base ELSE Append(base, prefetchScript)

\* "Handle prefetch strategy": the markup with the prefetch script, if any.
WithPrefetch(v, base, prefetchAssets) ==
    IF Len(prefetchAssets) = 0 THEN base
    ELSE WithScript(base, generatePrefetchScript(v, prefetchAssets,
                                                 v.prefetchStrategy))

\* Mutant: a set strategy prefetches whether or not there is an asset.
CombineTagsAlwaysScript(st, entrypoints, manifest, order) ==
    [v |-> st.v,
     html |-> IF st.v.prefetchStrategy = ""
              THEN JoinTags(st.preloads, st.tags)
              ELSE Append(JoinTags(st.preloads, st.tags),
                          [el |-> "script", items |-> {},
                           loader |-> st.v.prefetchStrategy,
                           event |-> st.v.prefetchEvent,
                           assets |-> MarshalAssets(
                               collectDynamicImports(st.v, entrypoints,
                                                     manifest, order)),
                           count |-> st.v.prefetchConcurrently])]

\* generateProductionTags after the loop over the entry points.
CombineTags(st, entrypoints, manifest, order) ==
    [v |-> st.v,
     html |-> IF st.v.prefetchStrategy = ""
              THEN JoinTags(st.preloads, st.tags)
              ELSE WithPrefetch(st.v, JoinTags(st.preloads, st.tags),
                                collectDynamicImports(st.v, entrypoints,
                                                      manifest, order))]

\* generateProductionTags: the markup (a sequence of tags, then the prefetch
\* script if any) and the instance after the call.  order is the iteration
\* order of the manifest during the call.
generateProductionTags(v, entrypoints, buildDirectory, manifest, order) ==
    CombineTags(ProcessEntries(NoTags(v), entrypoints, buildDirectory, manifest),
                entrypoints, manifest, order)

\* ---------------------------------------------------------------- instance

DefaultPrefetchConcurrently == 3

\* NewVite
NewVite ==
    [config |-> [BuildDirectory |-> S("build"),
                 ManifestFilename |-> F("manifest", "json"),
                 HotFile |-> S("hot"),
                 EntryPoints |-> <<>>],
     nonce |-> <<>>,
     integrityKey |-> "integrity",
     scriptTagAttributeResolvers |-> <<>>,
     styleTagAttributeResolvers |-> <<>>,
     preloadTagAttributeResolvers |-> <<>>,
     preloadedAssets |-> EmptyMap,
     manifests |-> EmptyMap,
     prefetchStrategy |-> "",
     prefetchConcurrently |-> DefaultPrefetchConcurrently,
     prefetchEvent |-> S("load")]

\* UseCspNonce: generated is what generateNonce returns when nonce is empty.
UseCspNonce(v, nonce, generated) ==
    [v EXCEPT !.nonce = IF nonce = <<>> THEN generated ELSE nonce]

\* UseIntegrityKey
UseIntegrityKey(v, key) == [v EXCEPT !.integrityKey = key]

\* UseScriptTagAttributes
UseScriptTagAttributes(v, resolver) ==
    [v EXCEPT !.scriptTagAttributeResolvers = Append(@, resolver)]

\* UseStyleTagAttributes
UseStyleTagAttributes(v, resolver) ==
    [v EXCEPT !.styleTagAttributeResolvers = Append(@, resolver)]

\* UsePreloadTagAttributes
UsePreloadTagAttributes(v, resolver) ==
    [v EXCEPT !.preloadTagAttributeResolvers = Append(@, resolver)]

\* Flush
Flush(v) == [v EXCEPT !.preloadedAssets = EmptyMap]

\* ------------------------------------------------------ prefetch settings

\* UsePrefetchStrategy storing the concurrency whatever the strategy.
UsePrefetchStrategyAnyStrategy(v, strategy, config) ==
    IF config # <<>>
    THEN [v EXCEPT !.prefetchStrategy = strategy, !.prefetchConcurrently = config[1]]
    ELSE [v EXCEPT !.prefetchStrategy = strategy]

\* UsePrefetchStrategy: config is <<>> (nil), or <<c>> for
\* map[string]any{"concurrency": c}.
UsePrefetchStrategy(v, strategy, config) ==
    IF strategy = "waterfall" /\ config # <<>>
    THEN [v EXCEPT !.prefetchStrategy = strategy, !.prefetchConcurrently = config[1]]
    ELSE [v EXCEPT !.prefetchStrategy = strategy]

\* UseWaterfallPrefetching: concurrency is <<>> (a nil *int) or <<c>>.
UseWaterfallPrefetching(v, concurrency) ==
    IF concurrency # <<>>
    THEN UsePrefetchStrategy(v, "waterfall", concurrency)
    ELSE UsePrefetchStrategy(v, "waterfall", <<v.prefetchConcurrently>>)

\* UseAggressivePrefetching
UseAggressivePrefetching(v) == UsePrefetchStrategy(v, "aggressive", <<>>)

\* Prefetch: an empty event means "load"; a nil concurrency selects the
\* aggressive strategy.
Prefetch(v, concurrency, event) ==
    LET w == [v EXCEPT !.prefetchEvent = IF event = <<>> THEN S("load") ELSE event]
    IN  IF concurrency = <<>>
        THEN UsePrefetchStrategy(w, "aggressive", <<>>)
        ELSE UsePrefetchStrategy(w, "waterfall", concurrency)

\* ------------------------------------------------------------------- files

\* ------------------------------------------------------------ entry points

\* WithEntryPoints
WithEntryPoints(v, entryPoints) == [v EXCEPT !.config.EntryPoints = entryPoints]

\* The loop of uniqueStrings: keys holds the items seen, result the items
\* kept.
RECURSIVE UniqueLoop(_, _, _)
UniqueLoop(slice, keys, result) ==
    IF slice = <<>> THEN result
    ELSE IF Head(slice) \in keys
         THEN UniqueLoop(Tail(slice), keys, result)
         ELSE UniqueLoop(Tail(slice), keys \cup {Head(slice)}, Append(result, Head(slice)))

\* uniqueStrings keeping the last occurrence of each item instead.
RECURSIVE uniqueStringsKeepingLast(_)
uniqueStringsKeepingLast(slice) ==
    IF slice = <<>> THEN <<>>
    ELSE IF \E i \in 2..Len(slice) : slice[i] = Head(slice)
         THEN uniqueStringsKeepingLast(Tail(slice))
         ELSE <<Head(slice)>> \o uniqueStringsKeepingLast(Tail(slice))

\* uniqueStrings
uniqueStrings(slice) == UniqueLoop(slice, {}, <<>>)

\* MergeEntryPoints
MergeEntryPoints(v, entryPoints) ==
    LET merged == v.config.EntryPoints \o entryPoints
    IN  [v EXCEPT !.config.EntryPoints = uniqueStrings(merged)]

\* The files are a function from the paths that exist to what is there: a
\* text, a text that is a JSON object (given parsed), or something that
\* os.Stat finds and os.ReadFile cannot read.
TextFile(content) == [kind |-> "text", content |-> content, manifest |-> EmptyMap]
JsonFile(m) == [kind |-> "json", content |-> <<>>, manifest |-> m]
Unreadable == [kind |-> "unreadable", content |-> <<>>, manifest |-> EmptyMap]

\* os.Stat(path) returns no error.
Exists(files, path) == path \in DOMAIN files

\* os.ReadFile(path) returns no error.
Readable(files, path) == Exists(files, path) /\ files[path] # Unreadable

\* The file written, and the file removed.
WithFile(files, path, file) == MapMerge(files, [p \in {path} |-> file])
WithoutFile(files, path) == [p \in DOMAIN files \ {path} |-> files[p]]

\* --------------------------------------------------------------- hot mode

NL == "\n"

IsSpace(tok) == tok = NL \/ tok = " "

\* strings.TrimSpace
RECURSIVE TrimSpaceLeft(_)
TrimSpaceLeft(s) ==
    IF s # <<>> /\ IsSpace(Head(s)) THEN TrimSpaceLeft(Tail(s)) ELSE s

RECURSIVE TrimSpaceRight(_)
TrimSpaceRight(s) ==
    IF s # <<>> /\ IsSpace(s[Len(s)])
    THEN TrimSpaceRight(SubSeq(s, 1, Len(s) - 1))
    ELSE s

TrimSpace(s) == TrimSpaceRight(TrimSpaceLeft(s))

\* strings.TrimRight(s, "/")
RECURSIVE TrimRightSlash(_)
TrimRightSlash(s) ==
    IF s # <<>> /\ s[Len(s)] = Slash
    THEN TrimRightSlash(SubSeq(s, 1, Len(s) - 1))
    ELSE s

\* HotFile
HotFile(v) == IF v.config.HotFile = <<>> THEN S("hot") ELSE v.config.HotFile

\* Mutant: an instance that has loaded a manifest stays in production mode.
IsRunningHotUnlessLoaded(v, files) ==
    v.manifests = EmptyMap /\ Exists(files, HotFile(v))

\* IsRunningHot: the file is probed on every call.
IsRunningHot(v, files) == Exists(files, HotFile(v))

\* getHotOrigin
getHotOrigin(v, files) ==
    IF Readable(files, HotFile(v))
    THEN [err |-> "", origin |-> TrimSpace(files[HotFile(v)].content)]
    ELSE [err |-> "sentinel unreadable", origin |-> <<>>]

\* hotAsset
hotAsset(v, files, asset) ==
    LET o == getHotOrigin(v, files)
    IN  IF o.err # "" THEN [err |-> o.err, url |-> <<>>]
        ELSE [err |-> "", url |-> TrimRightSlash(o.origin) \o <<Slash>> \o asset]

\* A piece of text url.Parse rejects (an invalid escape).
BadEscape == "%zz"

\* url.Parse(base) returns no error.
ParsesAsURL(base) == \A i \in DOMAIN base : base[i] # BadEscape

\* The scheme and authority of a parsed URL ("http:", "/", "/", host), and
\* the path after them.
HasAuthority(base) == Len(base) >= 4 /\ base[2] = Slash /\ base[3] = Slash
URLOrigin(base) == IF HasAuthority(base) THEN SubSeq(base, 1, 4) ELSE <<>>
URLPath(base) == IF HasAuthority(base) THEN SubSeq(base, 5, Len(base)) ELSE base

\* path.Join(a, b)
pathJoin(a, b) == filepathJoin(a, b)

\* (*URL).JoinPath: the path elements joined and cleaned, a trailing slash
\* of the last element kept.
JoinedPath(path, elem) ==
    LET p == IF path # <<>> /\ Head(path) = Slash
             THEN pathJoin(path, elem)
             ELSE Tail(pathJoin(<<Slash>> \o path, elem))
    IN  IF /\ elem # <<>> /\ elem[Len(elem)] = Slash
           /\ (p = <<>> \/ p[Len(p)] # Slash)
        THEN p \o <<Slash>>
        ELSE p

\* (*URL).String: a path after an authority starts with a slash.
URLString(origin, path) ==
    IF origin # <<>> /\ path # <<>> /\ Head(path) # Slash
    THEN origin \o <<Slash>> \o path
    ELSE origin \o path

\* url.JoinPath(base, elem)
urlJoinPath(base, elem) ==
    IF ~ParsesAsURL(base) THEN [err |-> "invalid URL", url |-> <<>>]
    ELSE [err |-> "", url |-> URLString(URLOrigin(base),
                                        JoinedPath(URLPath(base), elem))]

\* The tags of the entry points in the loop of generateHotTags; an entry
\* whose URL cannot be joined is skipped.
RECURSIVE HotEntryTags(_, _, _)
HotEntryTags(v, origin, entrypoints) ==
    IF entrypoints = <<>> THEN <<>>
    ELSE IF urlJoinPath(origin, Head(entrypoints)).err # ""
    THEN HotEntryTags(v, origin, Tail(entrypoints))
    ELSE <<makeTagForChunk(v, Head(entrypoints),
                           urlJoinPath(origin, Head(entrypoints)).url,
                           NilChunk, EmptyMap)>>
         \o HotEntryTags(v, origin, Tail(entrypoints))

ViteClient == <<"@vite", Slash, "client">>

\* Mutant: the client tag comes after the tags of the entry points.
HotTagsClientLast(v, origin, entrypoints) ==
    IF urlJoinPath(origin, ViteClient).err # ""
    THEN [err |-> urlJoinPath(origin, ViteClient).err, html |-> <<>>]
    ELSE [err |-> "",
          html |-> HotEntryTags(v, origin, entrypoints)
                   \o <<makeTagForChunk(v, ViteClient,
                                         urlJoinPath(origin, ViteClient).url,
                                         NilChunk, EmptyMap)>>]

\* generateHotTags once the origin is read.
HotTags(v, origin, entrypoints) ==
    IF urlJoinPath(origin, ViteClient).err # ""
    THEN [err |-> urlJoinPath(origin, ViteClient).err, html |-> <<>>]
    ELSE [err |-> "",
          html |-> <<makeTagForChunk(v, ViteClient,
                                     urlJoinPath(origin, ViteClient).url,
                                     NilChunk, EmptyMap)>>
                   \o HotEntryTags(v, origin, entrypoints)]

\* generateHotTags
generateHotTags(v, files, entrypoints) ==
    IF getHotOrigin(v, files).err # ""
    THEN [err |-> getHotOrigin(v, files).err, html |-> <<>>]
    ELSE HotTags(v, getHotOrigin(v, files).origin, entrypoints)

\* ----------------------------------------------------------- manifest store

\* manifestPath
manifestPath(v, buildDirectory) ==
    filepathJoin(buildDirectory, v.config.ManifestFilename)

\* Mutant: a load that fails leaves an empty manifest in the cache.
getManifestCachingFailure(v, files, buildDirectory) ==
    LET path == filepathJoin(buildDirectory, v.config.ManifestFilename)
        failed == [v EXCEPT !.manifests = MapMerge(@, [q \in {path} |-> EmptyMap])]
    IN  IF path \in DOMAIN v.manifests
        THEN [err |-> "", manifest |-> v.manifests[path], v |-> v]
        ELSE IF ~Exists(files, path)
        THEN [err |-> "manifest not found", manifest |-> EmptyMap, v |-> failed]
        ELSE IF files[path].kind # "json"
        THEN [err |-> "manifest not JSON", manifest |-> EmptyMap, v |-> failed]
        ELSE [err |-> "", manifest |-> files[path].manifest,
              v |-> [v EXCEPT !.manifests =
                        MapMerge(@, [q \in {path} |-> files[path].manifest])]]

\* Mutant: the file is read on every call and the cache overwritten.
getManifestReadAgain(v, files, buildDirectory) ==
    LET path == filepathJoin(buildDirectory, v.config.ManifestFilename)
    IN  IF ~Exists(files, path)
        THEN [err |-> "manifest not found", manifest |-> EmptyMap, v |-> v]
        ELSE IF ~Readable(files, path)
        THEN [err |-> "manifest unreadable", manifest |-> EmptyMap, v |-> v]
        ELSE IF files[path].kind # "json"
        THEN [err |-> "manifest not JSON", manifest |-> EmptyMap, v |-> v]
        ELSE [err |-> "", manifest |-> files[path].manifest,
              v |-> [v EXCEPT !.manifests =
                        MapMerge(@, [q \in {path} |-> files[path].manifest])]]

\* getManifest: the cached manifest of the path if there is one; otherwise
\* the file is read and parsed, and cached when that succeeds.
getManifest(v, files, buildDirectory) ==
    LET path == manifestPath(v, buildDirectory)
    IN  IF path \in DOMAIN v.manifests
        THEN [err |-> "", manifest |-> v.manifests[path], v |-> v]
        ELSE IF ~Exists(files, path)
        THEN [err |-> "manifest not found", manifest |-> EmptyMap, v |-> v]
        ELSE IF ~Readable(files, path)
        THEN [err |-> "manifest unreadable", manifest |-> EmptyMap, v |-> v]
        ELSE IF files[path].kind # "json"
        THEN [err |-> "manifest not JSON", manifest |-> EmptyMap, v |-> v]
        ELSE [err |-> "", manifest |-> files[path].manifest,
              v |-> [v EXCEPT !.manifests =
                        MapMerge(@, [q \in {path} |-> files[path].manifest])]]

\* if buildDirectory == "" { buildDirectory = v.config.BuildDirectory }
BuildDirectoryOr(v, buildDirectory) ==
    IF buildDirectory = <<>> THEN v.config.BuildDirectory ELSE buildDirectory

\* Invoke in production mode, after getManifest returned loaded.
InvokeProduction(loaded, entrypoints, buildDirectory, order) ==
    IF loaded.err # ""
    THEN [err |-> loaded.err, html |-> <<>>, v |-> loaded.v]
    ELSE [err |-> "",
          html |-> generateProductionTags(loaded.v, entrypoints, buildDirectory,
                                          loaded.manifest, order).html,
          v |-> generateProductionTags(loaded.v, entrypoints, buildDirectory,
                                       loaded.manifest, order).v]

\* Invoke: the error, the markup and the instance after the call.
Invoke(v, files, entrypoints, buildDirectory, order) ==
    IF IsRunningHot(v, files)
    THEN [err |-> generateHotTags(v, files, entrypoints).err,
          html |-> generateHotTags(v, files, entrypoints).html,
          v |-> v]
    ELSE InvokeProduction(getManifest(v, files, BuildDirectoryOr(v, buildDirectory)),
                          entrypoints, BuildDirectoryOr(v, buildDirectory), order)

\* Mutant: a key absent from the manifest is skipped, as Invoke skips it.
AssetProductionSkipping(loaded, asset, buildDirectory) ==
    IF loaded.err # ""
    THEN [err |-> loaded.err, url |-> <<>>, v |-> loaded.v]
    ELSE IF ~InManifest(loaded.manifest, asset)
    THEN [err |-> "", url |-> <<>>, v |-> loaded.v]
    ELSE IF ~Has(loaded.manifest[asset], "file")
    THEN [err |-> "invalid file", url |-> <<>>, v |-> loaded.v]
    ELSE [err |-> "",
          url |-> <<Slash>> \o TrimLeftSlash(
                      filepathJoin(buildDirectory, loaded.manifest[asset].file)),
          v |-> loaded.v]

\* Asset in production mode, after getManifest returned loaded.
AssetProduction(loaded, asset, buildDirectory) ==
    IF loaded.err # ""
    THEN [err |-> loaded.err, url |-> <<>>, v |-> loaded.v]
    ELSE IF ~InManifest(loaded.manifest, asset)
    THEN [err |-> "chunk not found", url |-> <<>>, v |-> loaded.v]
    ELSE IF ~Has(loaded.manifest[asset], "file")
    THEN [err |-> "invalid file", url |-> <<>>, v |-> loaded.v]
    ELSE [err |-> "",
          url |-> assetPath(loaded.v,
                            filepathJoin(buildDirectory,
                                         loaded.manifest[asset].file), FALSE),
          v |-> loaded.v]

\* Asset
Asset(v, files, asset, buildDirectory) ==
    IF IsRunningHot(v, files)
    THEN [err |-> hotAsset(v, files, asset).err,
          url |-> hotAsset(v, files, asset).url,
          v |-> v]
    ELSE AssetProduction(getManifest(v, files, BuildDirectoryOr(v, buildDirectory)),
                         asset, BuildDirectoryOr(v, buildDirectory))

\* The empty string returned in place of a hash.
NoHash == [kind |-> "none", content |-> <<>>, manifest |-> EmptyMap]

\* ManifestHash: the digest stands for the content it was computed from.
ManifestHash(v, files, buildDirectory) ==
    LET path == manifestPath(v, BuildDirectoryOr(v, buildDirectory))
    IN  IF IsRunningHot(v, files) THEN [err |-> "", hash |-> NoHash]
        ELSE IF ~Exists(files, path) THEN [err |-> "", hash |-> NoHash]
        ELSE IF ~Readable(files, path)
        THEN [err |-> "manifest unreadable", hash |-> NoHash]
        ELSE [err |-> "", hash |-> files[path]]

\* ReactRefresh: the preamble script importing the refresh runtime, or "".
ReactRefresh(v, files) ==
    IF ~IsRunningHot(v, files) THEN [err |-> "", html |-> <<>>]
    ELSE IF hotAsset(v, files, S("@react-refresh")).err # ""
    THEN [err |-> hotAsset(v, files, S("@react-refresh")).err, html |-> <<>>]
    ELSE [err |-> "",
          html |-> <<[el |-> "script",
                      items |-> parseAttributes([nonce |-> Str(v.nonce)])
                                \cup {[key |-> "type", bare |-> FALSE,
                                       value |-> S("module")]},
                      import |-> hotAsset(v, files, S("@react-refresh")).url]>>]

\* ------------------------------------------------------------ input sets

\* All sequences over set of length at most n.
SeqsUpTo(set, n) == UNION { [1..k -> set] : k \in 0..n }

\* A chunk from optional fields: each argument is <<>> (field absent) or
\* <<value>>.
MkChunk(file, imports, dynamicImports, css, integrity) ==
    [k \in { f \in {"file", "imports", "dynamicImports", "css", "integrity"} :
               (CASE f = "file" -> file
                  [] f = "imports" -> imports
                  [] f = "dynamicImports" -> dynamicImports
                  [] f = "css" -> css
                  [] f = "integrity" -> integrity) # <<>> } |->
        CASE k = "file" -> file[1]
          [] k = "imports" -> imports[1]
          [] k = "dynamicImports" -> dynamicImports[1]
          [] k = "css" -> css[1]
          [] k = "integrity" -> integrity[1]]

\* Optional values: absent, or one of set.
Opt(set) == {<<>>} \cup { <<x>> : x \in set }

\* Non-empty lists over set of length at most n, or the field absent.
OptList(set, n) == { IF l = <<>> THEN <<>> ELSE <<l>> : l \in SeqsUpTo(set, n) }

K1 == S("k1")
K2 == S("k2")
K3 == S("k3")
\* A key no manifest has.
K4 == S("k4")

AJs == F("a", "js")
BJs == F("b", "js")
DJs == F("d", "js")
CCss == F("c", "css")
DCss == F("d", "css")

\* -------------------------------------------------------------------- state

VARIABLES
    vite,       \* the Vite instance
    manifest,   \* the parsed manifest the calls work on
    call,       \* the last call made on the instance: its arguments and result
    made,       \* the number of calls made on the instance
    \* A collectDynamicImports call in progress:
    pc,                 \* "idle", "entries" (in the loop over the entry points), "done"
    loop,               \* the indices of the loops over entrypoints and dynamicImports
    frames,             \* the activations of collectImportsRecursively, innermost last
    discoveredImports,  \* the set behind the map[string]bool
    assets,             \* the assets appended so far, before uniquePrefetchAssets
    expanded,           \* the keys whose chunk collectImportsRecursively was called on
    \* What surrounds the instance:
    fs,                 \* the files the instance stats and reads
    page                \* a browser page running an emitted prefetch script

walk == <<pc, loop, frames, discoveredImports, assets, expanded>>

env == <<fs, page>>

vars == <<vite, manifest, call, made, walk, env>>

NoCall == [op |-> "none"]

\* No page has received a script.
NoPage == [phase |-> "none"]

\* No file on disk and no page: the calls are given their manifest.
NoFiles ==
    /\ fs = EmptyMap
    /\ page = NoPage

\* No collectDynamicImports call in progress.
WalkIdle ==
    /\ pc = "idle"
    /\ loop = [e |-> 1, j |-> 1]
    /\ frames = <<>>
    /\ discoveredImports = {}
    /\ assets = <<>>
    /\ expanded = <<>>

\* ------------------------------------------------- production rendering

MaxEntries == 2
MaxImports == 2
MaxResolvers == 2
MaxCalls == 2

\* The manifests of the production specification: k1 imports up to
\* MaxImports of k2 and k3, k2 may import k3 (a chunk then reachable from k1
\* only through an import), k3 may be missing from the manifest; files and
\* css paths overlap so that one URL is reached in several ways.
ProdChunks1 ==
    { MkChunk(<<f>>, i, <<>>, c, <<>>) :
        f \in {AJs, CCss},
        i \in OptList({K2, K3}, MaxImports),
        c \in {<<>>, << <<CCss, DCss>> >>} }

ProdChunks2 ==
    { MkChunk(f, i, <<>>, <<>>, <<>>) :
        f \in Opt({AJs, BJs}),
        i \in {<<>>, << <<K3>> >>} }

ProdChunks3 ==
    { MkChunk(<<DJs>>, <<>>, <<>>, c, <<>>) : c \in {<<>>, << <<DCss>> >>} }

ProdManifests ==
    { [k \in {K1, K2, K3} |-> IF k = K1 THEN c1 ELSE IF k = K2 THEN c2 ELSE c3] :
        c1 \in ProdChunks1, c2 \in ProdChunks2, c3 \in ProdChunks3 }
    \cup
    { [k \in {K1, K2} |-> IF k = K1 THEN c1 ELSE c2] :
        c1 \in ProdChunks1, c2 \in ProdChunks2 }

\* The preload resolvers a caller registers: one returning an empty map for
\* every asset, and one returning nil for the assets of two files.
EmptyMapResolver == [nilOn |-> {}, attrs |-> EmptyMap]
NilResolver == [nilOn |-> {AJs, CCss}, attrs |-> EmptyMap]

\* An instance configured by UsePreloadTagAttributes calls on a new one.
RECURSIVE Configured(_, _)
Configured(v, resolvers) ==
    IF resolvers = <<>> THEN v
    ELSE Configured(UsePreloadTagAttributes(v, Head(resolvers)), Tail(resolvers))

\* A new instance, or one with a suppressing preload resolver; a manifest;
\* no call made yet.
InitProd ==
    /\ vite \in {NewVite, Configured(NewVite, <<NilResolver>>)}
    /\ manifest \in ProdManifests
    /\ call = NoCall
    /\ made = 0
    /\ WalkIdle
    /\ NoFiles

\* An instance with up to MaxResolvers preload resolvers, and a manifest of
\* k1 and k2.
InitSuppress ==
    /\ vite \in { Configured(NewVite, rs) :
                    rs \in SeqsUpTo({EmptyMapResolver, NilResolver}, MaxResolvers) }
    /\ manifest \in { m \in ProdManifests : DOMAIN m = {K1, K2} }
    /\ call = NoCall
    /\ made = 0
    /\ WalkIdle
    /\ NoFiles

\* A range over the manifest may visit its keys in any order.
Orders(m) ==
    { o \in [1..Cardinality(DOMAIN m) -> DOMAIN m] :
        \A i, j \in DOMAIN o : i # j => o[i] # o[j] }

\* The manifest is ranged over only by the walker, which runs when a
\* prefetch strategy is set.
OrdersOfCall(v, m) == IF v.prefetchStrategy = "" THEN {<<>>} ELSE Orders(m)

\* One rendering of a list of entry points.
GenerateProductionTags ==
    /\ made < MaxCalls
    /\ \E entrypoints \in SeqsUpTo({K1, K2}, MaxEntries),
          order \in OrdersOfCall(vite, manifest) :
        LET buildDirectory == vite.config.BuildDirectory
            r == generateProductionTags(vite, entrypoints, buildDirectory,
                                        manifest, order)
        IN  /\ vite' = r.v
            /\ call' = [op |-> "generateProductionTags",
                        entrypoints |-> entrypoints,
                        buildDirectory |-> buildDirectory,
                        html |-> r.html]
            /\ made' = made + 1
            /\ UNCHANGED <<env, manifest, walk>>

\* One rendering on an instance.
NextProd == made = 0 /\ GenerateProductionTags

SpecProd == InitProd /\ [][NextProd]_vars

SpecSuppress == InitSuppress /\ [][NextProd]_vars

\* ------------------------------------- the dynamic-import walk, step by step

\* collectDynamicImports as the machine it runs: the loops over the entry
\* points and their dynamicImports, and a stack of collectImportsRecursively
\* activations.  An activation appends to assets when it finds an asset; the
\* list is the one its callers build by appending what each call returns.

MaxDynamic == 2
MaxDepth == 4

WalkChunks1 ==
    { MkChunk(<<AJs>>, <<>>, d, <<>>, <<>>) : d \in OptList({K2, K3}, MaxDynamic) }

WalkChunks2 ==
    { MkChunk(f, i, <<>>, <<>>, <<>>) :
        f \in Opt({BJs}),
        i \in Opt({<<K1>>, <<K3>>}) }

WalkChunks3 ==
    { MkChunk(<<DJs>>, i, <<>>, << <<CCss>> >>, <<>>) :
        i \in Opt({<<K2>>, <<K3>>}) }

\* k1's dynamicImports name k2 and k3; k2 and k3 import back, so that the
\* edges form cycles of length one, two and three.
WalkManifests ==
    { [k \in {K1, K2, K3} |-> IF k = K1 THEN c1 ELSE IF k = K2 THEN c2 ELSE c3] :
        c1 \in WalkChunks1, c2 \in WalkChunks2, c3 \in WalkChunks3 }

InitWalk ==
    /\ vite = NewVite
    /\ manifest \in WalkManifests
    /\ call = NoCall
    /\ made = 0
    /\ WalkIdle
    /\ NoFiles

\* Mutant: no key counts as discovered.
NeverDiscovered(seen, importStr) == FALSE

\* if (*discoveredImports)[importStr] { continue }
AlreadyDiscovered(seen, importStr) == importStr \in seen

\* A new activation of collectImportsRecursively on the chunk of key.
Frame(key, chunk) == [key |-> key, chunk |-> chunk, at |-> "file", i |-> 1]

Top == frames[Len(frames)]

SetTop(f) == [frames EXCEPT ![Len(frames)] = f]

InEntries == pc = "entries" /\ frames = <<>>

Entrypoint == call.entrypoints[loop.e]

HasDynamicImports ==
    /\ loop.e <= Len(call.entrypoints)
    /\ InManifest(manifest, Entrypoint)
    /\ Has(manifest[Entrypoint], "dynamicImports")

\* The call is made.
CollectDynamicImportsBegin ==
    /\ pc = "idle"
    /\ made < MaxCalls
    /\ \E entrypoints \in SeqsUpTo({K1, K2}, MaxEntries) :
          call' = [op |-> "collectDynamicImports", entrypoints |-> entrypoints]
    /\ made' = made + 1
    /\ pc' = "entries"
    /\ loop' = [e |-> 1, j |-> 1]
    /\ frames' = <<>>
    /\ discoveredImports' = {}
    /\ assets' = <<>>
    /\ expanded' = <<>>
    /\ UNCHANGED <<env, vite, manifest>>

\* The loop over the entry points moves on: the entry is not in the
\* manifest, has no dynamicImports, or they are all done.
NextEntrypoint ==
    /\ InEntries
    /\ loop.e <= Len(call.entrypoints)
    /\ IF HasDynamicImports
       THEN loop.j > Len(manifest[Entrypoint].dynamicImports)
       ELSE TRUE
    /\ loop' = [e |-> loop.e + 1, j |-> 1]
    /\ UNCHANGED <<env, vite, manifest, call, made, pc, frames, discoveredImports,
                   assets, expanded>>

\* One key of an entry's dynamicImports: skipped, or its chunk expanded.
NextDynamicImport ==
    /\ InEntries
    /\ HasDynamicImports
    /\ loop.j <= Len(manifest[Entrypoint].dynamicImports)
    /\ LET importStr == manifest[Entrypoint].dynamicImports[loop.j]
       IN  IF TopLevelAccepted(manifest, importStr)
           THEN /\ frames' = <<Frame(importStr, manifest[importStr])>>
                /\ expanded' = Append(expanded, importStr)
           ELSE UNCHANGED <<frames, expanded>>
    /\ loop' = [loop EXCEPT !.j = @ + 1]
    /\ UNCHANGED <<env, vite, manifest, call, made, pc, discoveredImports, assets>>

\* "Add the current chunk"
AddCurrentChunk ==
    /\ frames # <<>>
    /\ Top.at = "file"
    /\ \E order \in Orders(manifest) :
          assets' = assets \o CollectOwn(vite, Top.chunk, manifest, order)
    /\ frames' = SetTop([Top EXCEPT !.at = "imports"])
    /\ UNCHANGED <<env, vite, manifest, call, made, pc, loop, discoveredImports, expanded>>

\* One turn of the loop over the chunk's imports, or of the loop over its
\* dynamicImports: the loop ends, the key is skipped as discovered, or the
\* key is marked and, when the manifest has it, expanded.
ProcessKeys(field, after) ==
    /\ frames # <<>>
    /\ Top.at = field
    /\ LET keys == IF Has(Top.chunk, field) THEN Top.chunk[field] ELSE <<>>
           advanced == SetTop([Top EXCEPT !.i = @ + 1])
       IN  IF Top.i > Len(keys)
           THEN /\ frames' = SetTop([Top EXCEPT !.at = after, !.i = 1])
                /\ UNCHANGED <<discoveredImports, expanded>>
           ELSE IF AlreadyDiscovered(discoveredImports, keys[Top.i])
           THEN /\ frames' = advanced
                /\ UNCHANGED <<discoveredImports, expanded>>
           ELSE /\ discoveredImports' = discoveredImports \cup {keys[Top.i]}
                /\ IF InManifest(manifest, keys[Top.i])
                   THEN /\ Len(frames) < MaxDepth
                        /\ frames' = Append(advanced,
                                            Frame(keys[Top.i], manifest[keys[Top.i]]))
                        /\ expanded' = Append(expanded, keys[Top.i])
                   ELSE /\ frames' = advanced
                        /\ UNCHANGED expanded
    /\ UNCHANGED <<env, vite, manifest, call, made, pc, loop, assets>>

WalkImports == ProcessKeys("imports", "dynamicImports")

WalkDynamicImports == ProcessKeys("dynamicImports", "css")

\* "Process CSS files", and the return to the caller.
WalkCss ==
    /\ frames # <<>>
    /\ Top.at = "css"
    /\ \E order \in Orders(manifest) :
          assets' = assets \o CollectCss(vite, ListOf(Top.chunk, "css"),
                                          manifest, order)
    /\ frames' = SubSeq(frames, 1, Len(frames) - 1)
    /\ UNCHANGED <<env, vite, manifest, call, made, pc, loop, discoveredImports, expanded>>

\* return v.uniquePrefetchAssets(assets)
CollectDynamicImportsReturn ==
    /\ InEntries
    /\ loop.e > Len(call.entrypoints)
    /\ call' = [op |-> "collectDynamicImports",
                entrypoints |-> call.entrypoints,
                assets |-> uniquePrefetchAssets(assets)]
    /\ pc' = "done"
    /\ UNCHANGED <<env, vite, manifest, made, loop, frames, discoveredImports,
                   assets, expanded>>

NextWalk ==
    \/ CollectDynamicImportsBegin
    \/ NextEntrypoint
    \/ NextDynamicImport
    \/ AddCurrentChunk
    \/ WalkImports
    \/ WalkDynamicImports
    \/ WalkCss
    \/ CollectDynamicImportsReturn

SpecWalk == InitWalk /\ [][NextWalk]_vars

\* The call runs on one goroutine: a statement that can execute does.
SpecWalkLive == SpecWalk /\ WF_vars(NextWalk)

\* --------------------------------------- the dynamic-import walk, per call

Png == F("logo", "png")

\* k1 is an entry whose dynamicImports name k2 and k3; k2 may lack a file or
\* have one that is neither .js nor .css, imports k3 and lists two css
\* paths; k3 names k2 back.  c.css is a css path of k2 and may be the file
\* of k1 and of k3, which differ in their integrity.
CollectChunks1 ==
    { MkChunk(<<f>>, <<>>, d, <<>>, <<Str(S("h1"))>>) :
        f \in {AJs, CCss},
        d \in OptList({K2, K3}, MaxDynamic) }

CollectChunks2 ==
    { MkChunk(f, i, <<>>, c, <<>>) :
        f \in Opt({BJs, Png}),
        i \in Opt({<<K3>>}),
        c \in Opt({<<CCss, DCss>>}) }

CollectChunks3 ==
    { MkChunk(<<f>>, <<>>, d, <<>>, <<>>) :
        f \in {DJs, CCss},
        d \in Opt({<<K2>>}) }

CollectManifests ==
    { [k \in {K1, K2, K3} |-> IF k = K1 THEN c1 ELSE IF k = K2 THEN c2 ELSE c3] :
        c1 \in CollectChunks1, c2 \in CollectChunks2, c3 \in CollectChunks3 }

\* A new instance, one with a suppressing preload resolver, or one that has
\* rendered k2 and so holds its preloads in preloadedAssets.
InitCollect ==
    /\ manifest \in CollectManifests
    /\ vite \in { NewVite,
                  Configured(NewVite, <<NilResolver>>),
                  generateProductionTags(NewVite, <<K2>>,
                                         NewVite.config.BuildDirectory,
                                         manifest, <<>>).v }
    /\ call = NoCall
    /\ made = 0
    /\ WalkIdle
    /\ NoFiles

\* The chunk each file lookup finds under an iteration order.
Winners(m, o) ==
    [f \in { m[k].file : k \in { x \in DOMAIN m : Has(m[x], "file") } } |->
        FirstWithFile(m, o, f)]

\* One iteration order for each way the file lookups can come out.
Lookups(m) ==
    { CHOOSE o \in Orders(m) : Winners(m, o) = w :
        w \in { Winners(m, o) : o \in Orders(m) } }

\* One call of collectDynamicImports with entries k1 and k3, which name
\* dynamicImports, and k4, which is not in the manifest; collected is the
\* list before uniquePrefetchAssets.
CollectDynamicImports ==
    /\ made < MaxCalls
    /\ pc = "idle"
    /\ \E entrypoints \in SeqsUpTo({K1, K3, K4}, MaxEntries),
          order \in Lookups(manifest) :
          call' = [op |-> "collectDynamicImports",
                   entrypoints |-> entrypoints,
                   collected |-> CollectEntries(vite, entrypoints, manifest,
                                                NoAssets, order).assets,
                   assets |-> collectDynamicImports(vite, entrypoints,
                                                    manifest, order)]
    /\ made' = made + 1
    /\ UNCHANGED <<env, vite, manifest, walk>>

\* One call on an instance.
NextCollect == made = 0 /\ CollectDynamicImports

SpecCollect == InitCollect /\ [][NextCollect]_vars

\* Up to MaxCalls calls, one after the other.
NextCollectAgain == CollectDynamicImports

SpecCollectAgain == InitCollect /\ [][NextCollectAgain]_vars

\* ------------------------------------------- rendering with a prefetch strategy

\* The concurrency values a caller passes.
Concurrencies == {1, 5}

\* The instances the prefetch settings produce: no strategy, waterfall with
\* the default and with a given concurrency, aggressive (also after a
\* waterfall setting), both through Prefetch, and a strategy string that is
\* neither of the two.
PrefetchInstances ==
    { NewVite,
      UseWaterfallPrefetching(NewVite, <<>>),
      UseAggressivePrefetching(NewVite),
      UseAggressivePrefetching(UseWaterfallPrefetching(NewVite, <<5>>)),
      Prefetch(NewVite, <<>>, <<>>),
      UsePrefetchStrategy(NewVite, "other", <<>>) }
    \cup { UseWaterfallPrefetching(NewVite, <<c>>) : c \in Concurrencies }
    \cup { Prefetch(NewVite, <<c>>, S("DOMContentLoaded")) : c \in Concurrencies }

\* k1 names k2, or k2 and k3, as dynamic imports, or none; k2's file is a
\* script or an image; k3 has a stylesheet.
PrefetchManifests ==
    { [k \in {K1, K2, K3} |->
          IF k = K1 THEN MkChunk(<<AJs>>, <<>>, d, <<>>, <<>>)
          ELSE IF k = K2 THEN MkChunk(<<f>>, <<>>, <<>>, <<>>, <<>>)
          ELSE MkChunk(<<DJs>>, <<>>, <<>>, << <<CCss>> >>, <<>>)] :
        d \in {<<>>, << <<K2>> >>, << <<K2, K3>> >>},
        f \in {BJs, Png} }

InitPrefetch ==
    /\ vite \in PrefetchInstances
    /\ manifest \in PrefetchManifests
    /\ call = NoCall
    /\ made = 0
    /\ WalkIdle
    /\ NoFiles

SpecPrefetch == InitPrefetch /\ [][NextProd]_vars

\* ------------------------------------------- an instance and its files

\* The calls of one behaviour on the instance.
MaxOps == 2

\* What the dev server may leave in the sentinel file: its origin, the
\* origin followed by a newline or by a slash, and a text that is no URL.
HotOrigin == <<"http:", Slash, Slash, "localhost:5173">>

HotContents ==
    { HotOrigin, HotOrigin \o <<NL>>, HotOrigin \o <<Slash>>, <<BadEscape>> }

\* The entry points rendered in hot mode: a script, a stylesheet and a path
\* that is not clean.
MainJs == F("main", "js")
AppCss == F("app", "css")
UpJs == <<Dot, Dot, Slash>> \o F("up", "js")

\* The lists of entry points rendered while the dev server comes and goes.
HotEntrypoints ==
    { <<>>, <<MainJs>>, <<AppCss, MainJs>>, <<MainJs, UpJs>>, <<MainJs, MainJs>> }

\* The lists rendered from the manifests: k4 is in none of them.
StoreEntrypoints == { <<MainJs>>, <<K4, MainJs>> }

\* The manifest of the build: main.js imports k2 and the absent k4, and
\* names k3 and the absent k4 as dynamic imports.
Manifest1 ==
    [k \in {MainJs, K2, K3} |->
        IF k = MainJs
        THEN MkChunk(<<AJs>>, << <<K2, K4>> >>, << <<K3, K4>> >>, << <<CCss>> >>, <<>>)
        ELSE IF k = K2 THEN MkChunk(<<BJs>>, <<>>, <<>>, <<>>, <<>>)
        ELSE MkChunk(<<DJs>>, << <<K4>> >>, <<>>, <<>>, <<>>)]

\* The manifest of a later build.
Manifest2 ==
    [k \in {MainJs} |-> MkChunk(<<DJs>>, <<>>, <<>>, <<>>, <<>>)]

NotJson == <<"{">>

Dist == S("dist")

\* The previous call in short, kept with the next call.
Prev ==
    IF call.op = "none" THEN [op |-> "none", err |-> "", buildDirectory |-> <<>>]
    ELSE [op |-> call.op, err |-> call.err,
          buildDirectory |-> IF "buildDirectory" \in DOMAIN call
                             THEN call.buildDirectory ELSE <<>>]

\* The dev server starts, or something else appears where its file is.
WriteHotFile ==
    /\ \E file \in { TextFile(c) : c \in HotContents } \cup {Unreadable} :
          fs' = WithFile(fs, HotFile(vite), file)
    /\ UNCHANGED <<vite, manifest, call, made, walk, page>>

\* The dev server stops.
RemoveHotFile ==
    /\ Exists(fs, HotFile(vite))
    /\ fs' = WithoutFile(fs, HotFile(vite))
    /\ UNCHANGED <<vite, manifest, call, made, walk, page>>

\* A build writes the manifest of a build directory.
WriteManifest(dir, contents) ==
    /\ \E file \in contents :
          fs' = WithFile(fs, manifestPath(vite, BuildDirectoryOr(vite, dir)), file)
    /\ UNCHANGED <<vite, manifest, call, made, walk, page>>

\* The manifest of a build directory is deleted.
RemoveManifest(dirs) ==
    /\ \E dir \in dirs :
          /\ Exists(fs, manifestPath(vite, BuildDirectoryOr(vite, dir)))
          /\ fs' = WithoutFile(fs, manifestPath(vite, BuildDirectoryOr(vite, dir)))
    /\ UNCHANGED <<vite, manifest, call, made, walk, page>>

\* A call of Invoke.
InvokeCall(entries, dirs) ==
    /\ made < MaxOps
    /\ \E dir \in dirs :
        \E order \in Lookups(getManifest(vite, fs, BuildDirectoryOr(vite, dir)).manifest) :
          \E entrypoints \in entries :
            \E r \in {Invoke(vite, fs, entrypoints, dir, order)} :
              /\ vite' = r.v
              /\ call' = [op |-> "Invoke", entrypoints |-> entrypoints,
                          buildDirectory |-> dir, err |-> r.err, html |-> r.html,
                          prev |-> Prev]
    /\ made' = made + 1
    /\ UNCHANGED <<manifest, walk, env>>

\* A call of Asset.
AssetCall(keys, dirs) ==
    /\ made < MaxOps
    /\ \E asset \in keys, dir \in dirs :
        \E r \in {Asset(vite, fs, asset, dir)} :
          /\ vite' = r.v
          /\ call' = [op |-> "Asset", asset |-> asset, buildDirectory |-> dir,
                      err |-> r.err, url |-> r.url, prev |-> Prev]
    /\ made' = made + 1
    /\ UNCHANGED <<manifest, walk, env>>

\* A call of IsRunningHot.
IsRunningHotCall ==
    /\ made < MaxOps
    /\ call' = [op |-> "IsRunningHot", err |-> "",
                result |-> IsRunningHot(vite, fs), prev |-> Prev]
    /\ made' = made + 1
    /\ UNCHANGED <<vite, manifest, walk, env>>

\* A call of ManifestHash.
ManifestHashCall(dirs) ==
    /\ made < MaxOps
    /\ \E dir \in dirs :
          call' = [op |-> "ManifestHash", buildDirectory |-> dir,
                   err |-> ManifestHash(vite, fs, dir).err,
                   hash |-> ManifestHash(vite, fs, dir).hash,
                   prev |-> Prev]
    /\ made' = made + 1
    /\ UNCHANGED <<vite, manifest, walk, env>>

\* A call of ReactRefresh.
ReactRefreshCall ==
    /\ made < MaxOps
    /\ call' = [op |-> "ReactRefresh",
                err |-> ReactRefresh(vite, fs).err,
                html |-> ReactRefresh(vite, fs).html,
                prev |-> Prev]
    /\ made' = made + 1
    /\ UNCHANGED <<vite, manifest, walk, env>>

\* A call of Flush.
FlushCall ==
    /\ made < MaxOps
    /\ vite' = Flush(vite)
    /\ call' = [op |-> "Flush", err |-> "", prev |-> Prev]
    /\ made' = made + 1
    /\ UNCHANGED <<manifest, walk, env>>

\* A new instance with one of the prefetch settings, and no file yet.
InitServe ==
    /\ vite \in { NewVite,
                  UseWaterfallPrefetching(NewVite, <<>>),
                  UseAggressivePrefetching(NewVite) }
    /\ manifest = EmptyMap
    /\ call = NoCall
    /\ made = 0
    /\ WalkIdle
    /\ NoFiles

\* The build directory arguments of the calls: none, or none and dist.
ConfiguredDirectory == {<<>>}
EitherDirectory == {<<>>, Dist}

\* The build at the configured build directory.
HotBuilds == {JsonFile(Manifest1)}

\* The dev server comes and goes while the instance is called.
NextHot ==
    \/ WriteHotFile
    \/ RemoveHotFile
    \/ WriteManifest(<<>>, HotBuilds)
    \/ InvokeCall(HotEntrypoints, ConfiguredDirectory)
    \/ IsRunningHotCall
    \/ ManifestHashCall(ConfiguredDirectory)
    \/ ReactRefreshCall

SpecHot == InitServe /\ [][NextHot]_vars

\* A new instance, with or without a prefetch strategy, and no file yet.
InitStore ==
    /\ vite \in {NewVite, UseAggressivePrefetching(NewVite)}
    /\ manifest = EmptyMap
    /\ call = NoCall
    /\ made = 0
    /\ WalkIdle
    /\ NoFiles

\* Builds come and go while the instance is called in production mode: the
\* default build directory gets a text that is no JSON and the manifests of
\* two builds, the directory dist the second manifest.
StoreBuilds == {TextFile(NotJson), JsonFile(Manifest1), JsonFile(Manifest2)}
DistBuilds == {JsonFile(Manifest2)}
StoreAssets == {MainJs, K4}

NextStore ==
    \/ WriteManifest(<<>>, StoreBuilds)
    \/ WriteManifest(Dist, DistBuilds)
    \/ RemoveManifest(EitherDirectory)
    \/ InvokeCall(StoreEntrypoints, EitherDirectory)
    \/ AssetCall(StoreAssets, EitherDirectory)
    \/ FlushCall

SpecStore == InitStore /\ [][NextStore]_vars

\* ------------------------------------- renderings that share the registry

EJs == F("e", "js")

\* main.js imports k2 and names k3 and k1 as dynamic imports; k3 is also an
\* entry point of its own.
RegistryManifest ==
    [k \in {MainJs, K1, K2, K3} |->
        IF k = MainJs
        THEN MkChunk(<<AJs>>, << <<K2>> >>, << <<K3, K1>> >>, << <<CCss>> >>, <<>>)
        ELSE IF k = K1 THEN MkChunk(<<EJs>>, <<>>, <<>>, <<>>, <<>>)
        ELSE IF k = K2 THEN MkChunk(<<BJs>>, <<>>, <<>>, <<>>, <<>>)
        ELSE MkChunk(<<DJs>>, <<>>, <<>>, <<>>, <<>>)]

RegistryEntrypoints == { <<MainJs>>, <<K3>>, <<MainJs, K3>> }

\* The build is deployed under the configured build directory and under dist.
RegistryFiles(v) ==
    WithFile(WithFile(EmptyMap, manifestPath(v, v.config.BuildDirectory),
                      JsonFile(RegistryManifest)),
             manifestPath(v, Dist), JsonFile(RegistryManifest))

\* An instance that prefetches, with or without a preload resolver that
\* suppresses a.js and c.css; and each of them after it has rendered k3.
RegistryInstances ==
    { UseAggressivePrefetching(NewVite),
      UseAggressivePrefetching(Configured(NewVite, <<NilResolver>>)) }

InitRegistry ==
    /\ \E v \in RegistryInstances :
          /\ fs = RegistryFiles(v)
          /\ vite \in {v, Invoke(v, fs, <<K3>>, <<>>, <<MainJs, K1, K2, K3>>).v}
    /\ page = NoPage
    /\ manifest = EmptyMap
    /\ call = NoCall
    /\ made = 0
    /\ WalkIdle

RegistryAssets == {MainJs}

\* The instance is called while the dev server comes and goes.
NextRegistry ==
    \/ WriteHotFile
    \/ RemoveHotFile
    \/ InvokeCall(RegistryEntrypoints, EitherDirectory)
    \/ AssetCall(RegistryAssets, ConfiguredDirectory)
    \/ FlushCall

SpecRegistry == InitRegistry /\ [][NextRegistry]_vars

\* --------------------------------------------- a page running the loader

MaxAssets == 4
MaxConcurrency == 3

\* The i-th asset of a list.
AssetNo(i) ==
    [Rel |-> S("prefetch"), FetchPriority |-> S("low"),
     Href |-> <<Slash, "build", Slash, "chunk">> \o F(ToString(i), "js"),
     As |-> S("script"), Nonce |-> <<>>, Crossorigin |-> <<>>, Integrity |-> <<>>]

\* The waterfall scripts generatePrefetchScript emits for lists of one to
\* MaxAssets assets and a concurrency of zero to MaxConcurrency.
WaterfallScripts ==
    { generatePrefetchScript(UseWaterfallPrefetching(NewVite, <<n>>),
                             [i \in 1..l |-> AssetNo(i)], "waterfall") :
        l \in 1..MaxAssets, n \in 0..MaxConcurrency }

InitLoader ==
    /\ vite = NewVite
    /\ manifest = EmptyMap
    /\ call = NoCall
    /\ made = 0
    /\ WalkIdle
    /\ fs = EmptyMap
    /\ page \in { PageOf(script) : script \in WaterfallScripts }

\* The prefetch event fires: the listener sets a timeout for its body.
FireEvent ==
    /\ page.phase = "waiting"
    /\ page' = [page EXCEPT !.phase = "fired",
                            !.step = [NoStep EXCEPT !.op = "event"]]
    /\ UNCHANGED <<vite, manifest, call, made, walk, fs>>

\* The listener's timeout runs: loadNext(assets, count) sets a timeout.
StartLoader ==
    /\ page.phase = "fired"
    /\ page' = [page EXCEPT !.phase = "running",
                            !.queue = page.assets,
                            !.timers = <<[count |-> page.count,
                                          from |-> "script",
                                          left |-> Len(page.assets)]>>,
                            !.step = [NoStep EXCEPT !.op = "start"]]
    /\ UNCHANGED <<vite, manifest, call, made, walk, fs>>

\* A timeout of loadNext runs: it shifts up to count assets off the queue
\* and appends their links to the document.
LoadNext ==
    /\ page.phase = "running"
    /\ \E t \in DOMAIN page.timers :
        \E k \in {TakeCount(page.timers[t].count, page.queue)} :
          page' = [page EXCEPT
                     !.timers = RemoveAt(page.timers, t),
                     !.queue = SubSeq(page.queue, k + 1, Len(page.queue)),
                     !.inflight = @ \cup LinksOf(page.queue, k),
                     !.requested = @ \o SubSeq(page.queue, 1, k),
                     !.step = [op |-> "loadNext",
                               count |-> page.timers[t].count,
                               from |-> page.timers[t].from,
                               left |-> page.timers[t].left,
                               before |-> Len(page.queue),
                               started |-> k]]
    /\ UNCHANGED <<vite, manifest, call, made, walk, fs>>

\* The load of a link completes, or fails: its handler, if it has one, calls
\* loadNext(assets, 1).
LinkDone(outcome) ==
    /\ \E link \in page.inflight :
          page' = [page EXCEPT
                     !.inflight = @ \ {link},
                     !.timers = @ \o Continuation(link, page.queue),
                     !.step = [NoStep EXCEPT !.op = outcome]]
    /\ UNCHANGED <<vite, manifest, call, made, walk, fs>>

LinkLoads == LinkDone("onload")

LinkFails == LinkDone("onerror")

NextLoader ==
    \/ FireEvent
    \/ StartLoader
    \/ LoadNext
    \/ LinkLoads
    \/ LinkFails

SpecLoader == InitLoader /\ [][NextLoader]_vars

\* The browser runs every timeout that is set, and every load that was
\* started completes or fails; nothing says that the event fires.
SpecLoaderLive ==
    /\ SpecLoader
    /\ WF_vars(StartLoader)
    /\ WF_vars(LoadNext)
    /\ WF_vars(LinkLoads \/ LinkFails)

\* ------------------------------------------------- rendering attributes

AttributeKeys == {"defer", "disabled", "hidden", "data-value"}

AttributeValues ==
    {Nil, Bool(TRUE), Bool(FALSE), Str(S("x")), Str(S("false")), Str(<<>>),
     IntValue(123), IntValue(0), IntValue(0 - 5), NilPointer}

\* Every attribute map over some of the keys.
InitAttributes ==
    /\ vite = NewVite
    /\ manifest = EmptyMap
    /\ made = 0
    /\ WalkIdle
    /\ NoFiles
    /\ \E keys \in SUBSET AttributeKeys :
        \E attributes \in [keys -> AttributeValues] :
            call = [op |-> "none", attributes |-> attributes, result |-> {}]

parseAttributesCall ==
    /\ made = 0
    /\ call' = [op |-> "parseAttributes", attributes |-> call.attributes,
                result |-> parseAttributes(call.attributes)]
    /\ made' = 1
    /\ UNCHANGED <<env, vite, manifest, walk>>

SpecAttributes == InitAttributes /\ [][parseAttributesCall]_vars

\* ------------------------------------------------- configuring an instance

MaxSettings == 3

SettingConcurrencies == {1, 5}

SettingEntryPoints ==
    {<<>>, <<MainJs>>, <<MainJs, MainJs>>, <<AppCss, MainJs>>, <<UpJs, AppCss, UpJs>>}

\* A new instance; call.log lists the prefetch-setting calls made so far.
InitSettings ==
    /\ vite = NewVite
    /\ manifest = EmptyMap
    /\ made = 0
    /\ WalkIdle
    /\ NoFiles
    /\ call = [op |-> "none", entryPoints |-> <<>>, log |-> <<>>]

\* One prefetch-setting call, the instance after it being w.
Setting(op, strategy, concurrency, w) ==
    /\ made < MaxSettings
    /\ vite' = w
    /\ call' = [op |-> op, entryPoints |-> <<>>,
                log |-> Append(call.log, [op |-> op, strategy |-> strategy,
                                          concurrency |-> concurrency])]
    /\ made' = made + 1
    /\ UNCHANGED <<env, manifest, walk>>

UseWaterfallPrefetchingCall ==
    \E concurrency \in Opt(SettingConcurrencies) :
        Setting("UseWaterfallPrefetching", "", concurrency,
                UseWaterfallPrefetching(vite, concurrency))

UseAggressivePrefetchingCall ==
    Setting("UseAggressivePrefetching", "", <<>>, UseAggressivePrefetching(vite))

PrefetchCall ==
    \E concurrency \in Opt(SettingConcurrencies) :
        \E event \in {<<>>, S("DOMContentLoaded")} :
            Setting("Prefetch", "", concurrency, Prefetch(vite, concurrency, event))

UsePrefetchStrategyCall ==
    \E strategy \in {"waterfall", "aggressive"} :
        \E config \in Opt(SettingConcurrencies) :
            Setting("UsePrefetchStrategy", strategy, config,
                    UsePrefetchStrategy(vite, strategy, config))

\* One entry-point call, the instance after it being w.
EntryPointSetting(op, entryPoints, w) ==
    /\ made < MaxSettings
    /\ vite' = w
    /\ call' = [op |-> op, entryPoints |-> entryPoints, log |-> call.log]
    /\ made' = made + 1
    /\ UNCHANGED <<env, manifest, walk>>

WithEntryPointsCall ==
    \E entryPoints \in SettingEntryPoints :
        EntryPointSetting("WithEntryPoints", entryPoints,
                          WithEntryPoints(vite, entryPoints))

MergeEntryPointsCall ==
    \E entryPoints \in SettingEntryPoints :
        EntryPointSetting("MergeEntryPoints", entryPoints,
                          MergeEntryPoints(vite, entryPoints))

NextSettings ==
    \/ UseWaterfallPrefetchingCall
    \/ UseAggressivePrefetchingCall
    \/ PrefetchCall
    \/ UsePrefetchStrategyCall
    \/ WithEntryPointsCall
    \/ MergeEntryPointsCall

SpecSettings == InitSettings /\ [][NextSettings]_vars

\* ------------------------------------------------------------ the nonce

\* An instance with or without a prefetch strategy, with no nonce, a given
\* one or a generated one.
NonceInstances ==
    UNION { {w, UseCspNonce(w, S("n1"), <<>>), UseCspNonce(w, <<>>, S("g1"))} :
              w \in {NewVite, UseWaterfallPrefetching(NewVite, <<>>),
                     UseAggressivePrefetching(NewVite)} }

\* k1 has a stylesheet and names k2, or k2 and k3, as dynamic imports, or
\* none.
NonceManifests ==
    { [k \in {K1, K2, K3} |->
          IF k = K1 THEN MkChunk(<<AJs>>, <<>>, d, << <<CCss>> >>, <<>>)
          ELSE IF k = K2 THEN MkChunk(<<BJs>>, <<>>, <<>>, <<>>, <<>>)
          ELSE MkChunk(<<DJs>>, <<>>, <<>>, << <<DCss>> >>, <<>>)] :
        d \in {<<>>, << <<K2>> >>, << <<K2, K3>> >>} }

InitNonce ==
    /\ vite \in NonceInstances
    /\ manifest \in NonceManifests
    /\ call = NoCall
    /\ made = 0
    /\ WalkIdle
    /\ NoFiles

SpecNonce == InitNonce /\ [][NextProd]_vars

\* ----------------------------------------------------- classifying a URL

MaxUrl == 5

UrlTokens == {"a", "js", "css", "stylus", Dot, QMark}

\* A new instance and the URL of a tag to make.
InitClassify ==
    /\ vite = NewVite
    /\ manifest = EmptyMap
    /\ made = 0
    /\ WalkIdle
    /\ NoFiles
    /\ \E url \in SeqsUpTo(UrlTokens, MaxUrl) :
          call = [op |-> "none", url |-> url, tag |-> NoTag]

makeTagForChunkCall ==
    /\ made = 0
    /\ call' = [op |-> "makeTagForChunk", url |-> call.url,
                tag |-> makeTagForChunk(vite, call.url, call.url,
                                        [file |-> call.url], manifest)]
    /\ made' = 1
    /\ UNCHANGED <<env, vite, manifest, walk>>

SpecClassify == InitClassify /\ [][makeTagForChunkCall]_vars

\* ------------------------------------------------- tags with resolvers

\* The resolvers a caller registers: their keys meet each other's and the
\* built-in ones, and the third returns nil for the stylesheet.
AsyncResolver ==
    [nilOn |-> {},
     attrs |-> [crossorigin |-> Str(S("anonymous")), async |-> Bool(TRUE)]]
TypeResolver ==
    [nilOn |-> {},
     attrs |-> [async |-> Bool(FALSE), type |-> Str(S("text")),
                nonce |-> Str(S("n2"))]]
IntegrityResolver ==
    [nilOn |-> {CCss},
     attrs |-> [integrity |-> Str(S("user")), crossorigin |-> Nil]]

TagResolvers == {AsyncResolver, TypeResolver, IntegrityResolver}

\* v after one Use...TagAttributes call per resolver, in the order given.
RECURSIVE Registered(_, _, _, _)
Registered(v, scripts, styles, preloads) ==
    IF scripts # <<>>
    THEN Registered(UseScriptTagAttributes(v, Head(scripts)),
                    Tail(scripts), styles, preloads)
    ELSE IF styles # <<>>
    THEN Registered(UseStyleTagAttributes(v, Head(styles)),
                    scripts, Tail(styles), preloads)
    ELSE IF preloads # <<>>
    THEN Registered(UsePreloadTagAttributes(v, Head(preloads)),
                    scripts, styles, Tail(preloads))
    ELSE v

\* An instance with up to MaxResolvers resolvers of each kind.
InitResolve ==
    /\ vite \in { Registered(NewVite, scripts, styles, preloads) :
                    scripts \in SeqsUpTo(TagResolvers, MaxResolvers),
                    styles \in {<<>>, <<TypeResolver, AsyncResolver>>},
                    preloads \in SeqsUpTo(TagResolvers, MaxResolvers) }
    /\ manifest = EmptyMap
    /\ call = NoCall
    /\ made = 0
    /\ WalkIdle
    /\ NoFiles

\* What a manifest may hold under a chunk's integrity key: a string, null, a
\* boolean.
IntegrityValues == {Str(S("h1")), Nil, Bool(FALSE), Bool(TRUE)}

\* The tag and the preload tag of one asset, as generateProductionTags makes
\* them.
MakeTagsCall ==
    /\ made = 0
    /\ \E file \in {AJs, BJs, CCss, DCss}, integrity \in Opt(IntegrityValues) :
        \E url \in {ChunkURL(vite, vite.config.BuildDirectory, file)},
           chunk \in {MkChunk(<<file>>, <<>>, <<>>, <<>>, integrity)} :
          \E preload \in {makePreloadTagForChunk(vite, K1, url, chunk, manifest)} :
            /\ call' = [op |-> "makeTags", url |-> url, chunk |-> chunk,
                        tag |-> makeTagForChunk(vite, K1, url, chunk, manifest),
                        preload |-> preload.tag]
            /\ vite' = preload.v
    /\ made' = 1
    /\ UNCHANGED <<env, manifest, walk>>

SpecResolve == InitResolve /\ [][MakeTagsCall]_vars

\* An instance without resolvers, with an integrity key and with or without
\* a nonce.
InitIntegrity ==
    /\ vite \in { UseIntegrityKey(w, key) :
                    w \in {NewVite, UseCspNonce(NewVite, S("n1"), <<>>)},
                    key \in {"integrity", "file", ""} }
    /\ manifest = EmptyMap
    /\ call = NoCall
    /\ made = 0
    /\ WalkIdle
    /\ NoFiles

SpecIntegrity == InitIntegrity /\ [][MakeTagsCall]_vars

\* ------------------------------------------------ reading the markup

Item(tag, key) == { it \in tag.items : it.key = key }

HasAttr(tag, key, value) ==
    [key |-> key, bare |-> FALSE, value |-> value] \in tag.items

\* <link rel="modulepreload"|"preload" ...>
IsPreloadTag(tag) ==
    /\ tag.el = "link"
    /\ HasAttr(tag, "rel", S("modulepreload")) \/ HasAttr(tag, "rel", S("preload"))

\* <script type="module" src=...> or <link rel="stylesheet" ...>
IsScriptTag(tag) == tag.el = "script" /\ Item(tag, "src") # {}
IsStylesheetTag(tag) == tag.el = "link" /\ HasAttr(tag, "rel", S("stylesheet"))
IsContentTag(tag) == IsScriptTag(tag) \/ IsStylesheetTag(tag)

\* The URL a tag points at.
TagURL(tag) ==
    LET it == Item(tag, "href") \cup Item(tag, "src")
    IN  (CHOOSE x \in it : TRUE).value

\* The URLs of the preload tags, and of the content tags, of html, in order.
URLs(tags) == [i \in 1..Len(tags) |-> TagURL(tags[i])]
PreloadURLs(html) == URLs(SelectSeq(html, IsPreloadTag))
ContentURLs(html) == URLs(SelectSeq(html, IsContentTag))

Range(seq) == { seq[i] : i \in DOMAIN seq }

\* The URL under which the build directory serves a file of the manifest.
URLOf(buildDirectory, file) == <<Slash>> \o buildDirectory \o <<Slash>> \o file

Called == call.op = "generateProductionTags"


\* ------------------------------------------------ what the claims speak of

\* seq without the repetitions of an element after its first occurrence.
RECURSIVE FirstOccurrences(_)
FirstOccurrences(seq) ==
    IF seq = <<>> THEN <<>>
    ELSE LET init == FirstOccurrences(SubSeq(seq, 1, Len(seq) - 1))
             last == seq[Len(seq)]
         IN  IF last \in Range(init) THEN init ELSE Append(init, last)

RECURSIVE Flatten(_)
Flatten(seqs) == IF seqs = <<>> THEN <<>> ELSE Head(seqs) \o Flatten(Tail(seqs))

NoRepetition(seq) == \A i, j \in DOMAIN seq : i # j => seq[i] # seq[j]

\* The URLs of a chunk's file (none without a file) and of its css list.
FileURLs(dir, chunk) ==
    IF Has(chunk, "file") THEN <<URLOf(dir, chunk.file)>> ELSE <<>>
CssURLs(dir, chunk) ==
    IF Has(chunk, "css")
    THEN [i \in 1..Len(chunk.css) |-> URLOf(dir, chunk.css[i])]
    ELSE <<>>

\* The chunks of the keys of a chunk's imports that the manifest has, in
\* list order.
ImportChunks(m, chunk) ==
    IF Has(chunk, "imports")
    THEN LET present == SelectSeq(chunk.imports, LAMBDA k : k \in DOMAIN m)
         IN  [i \in 1..Len(present) |-> m[present[i]]]
    ELSE <<>>

\* The entries of a list that are rendered: those the manifest has, with a file.
Rendered(m, entrypoints) ==
    SelectSeq(entrypoints, LAMBDA e : e \in DOMAIN m /\ Has(m[e], "file"))

\* Some registered preload resolver returns nil for the asset at url.
Suppressed(v, url) ==
    \E i \in DOMAIN v.preloadTagAttributeResolvers :
        \E f \in v.preloadTagAttributeResolvers[i].nilOn : HasSuffix(url, f)

\* C1: in the output of a production rendering every preload tag comes
\* before every content tag (script or stylesheet).
C1_PreloadsFirst ==
    Called =>
        \A i, j \in DOMAIN call.html :
            IsPreloadTag(call.html[i]) /\ IsContentTag(call.html[j]) => i < j

\* Two entries rendered, with several preload tags and several content tags.
C1_Witness ==
    /\ Called
    /\ Len(Rendered(manifest, call.entrypoints)) = 2
    /\ Len(PreloadURLs(call.html)) >= 3
    /\ Len(ContentURLs(call.html)) >= 3

\* The URLs a rendering of the single entry e discovers, in the order of
\* discovery: e's file, then for each import in list order its file and its
\* css paths, then e's css paths.
DiscoveryOf(m, dir, e) ==
    FileURLs(dir, m[e])
        \o Flatten([i \in 1..Len(ImportChunks(m, m[e])) |->
                       FileURLs(dir, ImportChunks(m, m[e])[i])
                           \o CssURLs(dir, ImportChunks(m, m[e])[i])])
        \o CssURLs(dir, m[e])

\* The content tags a rendering of the single entry e emits: the css of each
\* import, then e's own tag, then e's css in list order.
ContentOf(m, dir, e) ==
    Flatten([i \in 1..Len(ImportChunks(m, m[e])) |->
                CssURLs(dir, ImportChunks(m, m[e])[i])])
        \o FileURLs(dir, m[e])
        \o CssURLs(dir, m[e])

\* C2: rendering the single entry E (in the manifest, with a file) emits the
\* preload tags in the order E's file, then the file of each key of
\* E.imports in list order (each followed by that import's css, E's css
\* last; a URL is preloaded once, where it is met first, and not at all when
\* a resolver suppresses it), and emits E's own tag before E's stylesheet
\* tags, these in css order, after the stylesheets of the imports.
C2_SingleEntryOrder ==
    Called /\ Len(call.entrypoints) = 1
           /\ Rendered(manifest, call.entrypoints) = call.entrypoints =>
        LET e == call.entrypoints[1]
            dir == call.buildDirectory
        IN  /\ PreloadURLs(call.html) =
                   FirstOccurrences(SelectSeq(DiscoveryOf(manifest, dir, e),
                                              LAMBDA u : ~Suppressed(vite, u)))
            /\ ContentURLs(call.html) = ContentOf(manifest, dir, e)
            /\ \A i \in DOMAIN call.html :
                   IsContentTag(call.html[i]) =>
                       (IsStylesheetTag(call.html[i]) <=> isCSSPath(TagURL(call.html[i])))

\* Entry k1 with file a.js, css [c.css, d.css] and the imports k3, k2 with
\* files d.js and b.js: the output is preload(a.js), preload(d.js), ...,
\* preload(b.js), ..., script(a.js), stylesheet(c.css), stylesheet(d.css).
C2_Witness ==
    /\ Called
    /\ call.entrypoints = <<K1>>
    /\ vite.preloadTagAttributeResolvers = <<>>
    /\ K3 \in DOMAIN manifest
    /\ manifest[K1] = MkChunk(<<AJs>>, << <<K3, K2>> >>, <<>>, << <<CCss, DCss>> >>, <<>>)
    /\ Has(manifest[K2], "file") /\ manifest[K2].file = BJs
    /\ LET p == PreloadURLs(call.html)
           c == ContentURLs(call.html)
           B(f) == URLOf(S("build"), f)
       IN  /\ p[1] = B(AJs) /\ p[2] = B(DJs)
           /\ \E i \in 3..Len(p) : p[i] = B(BJs)
           /\ SubSeq(c, Len(c) - 2, Len(c)) = <<B(AJs), B(CCss), B(DCss)>>

\* C3: no URL occurs in two preload tags of one production rendering.
C3_NoDuplicatePreload == Called => NoRepetition(PreloadURLs(call.html))

\* Two entries of which the first imports the second and both import k3, k1
\* and k2 sharing the file a.js: every URL is met more than once.
C3_Witness ==
    /\ Called
    /\ call.entrypoints = <<K1, K2>>
    /\ K3 \in DOMAIN manifest
    /\ Has(manifest[K1], "imports") /\ manifest[K1].imports = <<K2, K3>>
    /\ Has(manifest[K2], "imports") /\ manifest[K2].imports = <<K3>>
    /\ manifest[K1].file = AJs
    /\ Has(manifest[K2], "file") /\ manifest[K2].file = AJs
    /\ Len(PreloadURLs(call.html)) >= 2

\* The URLs of an entry list's own files and css, and of the files and css
\* of the keys listed in the imports of an entry.
DirectURLs(m, dir, entrypoints) ==
    UNION { Range(DiscoveryOf(m, dir, e)) : e \in Range(Rendered(m, entrypoints)) }

\* C4: a production rendering emits preload and content tags only for each
\* rendered entry's own file and css and for the file and css of the keys
\* listed in that entry's imports; nothing is emitted for a chunk reached
\* only through the imports of an import.
C4_OneLevel ==
    Called =>
        \A i \in DOMAIN call.html :
            IsPreloadTag(call.html[i]) \/ IsContentTag(call.html[i]) =>
                TagURL(call.html[i]) \in
                    DirectURLs(manifest, call.buildDirectory, call.entrypoints)

\* k1 imports k2 only, k2 imports k3, k3 has the file d.js and the css
\* d.css that nothing else has: neither URL is in the output of [k1].
C4_Witness ==
    /\ Called
    /\ call.entrypoints = <<K1>>
    /\ K3 \in DOMAIN manifest
    /\ manifest[K1] = MkChunk(<<AJs>>, << <<K2>> >>, <<>>, <<>>, <<>>)
    /\ manifest[K2] = MkChunk(<<BJs>>, << <<K3>> >>, <<>>, <<>>, <<>>)
    /\ manifest[K3] = MkChunk(<<DJs>>, <<>>, <<>>, << <<DCss>> >>, <<>>)
    /\ PreloadURLs(call.html) = <<URLOf(S("build"), AJs), URLOf(S("build"), BJs)>>
    /\ ContentURLs(call.html) = <<URLOf(S("build"), AJs)>>

\* C10: no preload tag is emitted for an asset for which some registered
\* preload resolver returns nil, while its script or stylesheet tag is
\* emitted as without the resolver; every other discovered URL has its
\* preload tag, so a resolver returning an empty map suppresses nothing.
C10_Suppression ==
    Called =>
        LET dir == call.buildDirectory
            entries == Rendered(manifest, call.entrypoints)
            discovered == DirectURLs(manifest, dir, call.entrypoints)
        IN  /\ \A u \in discovered :
                   u \in Range(PreloadURLs(call.html)) <=> ~Suppressed(vite, u)
            /\ ContentURLs(call.html) =
                   Flatten([i \in 1..Len(entries) |->
                               ContentOf(manifest, dir, entries[i])])

\* The second of two resolvers returns nil for a.js and c.css, the first an
\* empty map: k1 (file a.js, css c.css and d.css) gets its script and
\* stylesheet tags, and only d.css is preloaded.
C10_Witness ==
    /\ Called
    /\ call.entrypoints = <<K1>>
    /\ Len(vite.preloadTagAttributeResolvers) = 2
    /\ vite.preloadTagAttributeResolvers[1].nilOn = {}
    /\ vite.preloadTagAttributeResolvers[2].nilOn # {}
    /\ manifest[K1] = MkChunk(<<AJs>>, <<>>, <<>>, << <<CCss, DCss>> >>, <<>>)
    /\ PreloadURLs(call.html) = <<URLOf(S("build"), DCss)>>
    /\ ContentURLs(call.html) =
           <<URLOf(S("build"), AJs), URLOf(S("build"), CCss), URLOf(S("build"), DCss)>>

\* The keys a chunk's imports and dynamicImports name.
Edges(m, k) ==
    IF ~InManifest(m, k) THEN {}
    ELSE (IF Has(m[k], "imports") THEN Range(m[k].imports) ELSE {})
         \cup (IF Has(m[k], "dynamicImports") THEN Range(m[k].dynamicImports) ELSE {})

\* The keys reachable from the keys of from in at most n steps.
RECURSIVE Within(_, _, _)
Within(m, from, n) ==
    IF n = 0 THEN from
    ELSE Within(m, from \cup UNION { Edges(m, k) : k \in from }, n - 1)

Reach(m, from) == Within(m, from, Cardinality(DOMAIN m))

\* C5: collectDynamicImports terminates for every finite manifest and entry
\* list, cyclic manifests included: every call that is made returns.
C5_Terminates == <>(pc = "done")

\* A call has returned after expanding a chunk that imports itself and two
\* chunks that import each other.
C5_Witness ==
    /\ pc = "done"
    /\ \E k \in Range(expanded) : k \in Edges(manifest, k)
    /\ \E k, l \in Range(expanded) :
          k # l /\ l \in Edges(manifest, k) /\ k \in Edges(manifest, l)

\* C6: within one collectDynamicImports traversal collectImportsRecursively
\* is called on the chunk of each key at most once.
C6_ExpandedAtMostOnce ==
    \A i, j \in DOMAIN expanded : expanded[i] = expanded[j] => i = j

\* A collectDynamicImports call has returned.
Collected == pc = "idle" /\ call.op = "collectDynamicImports"

Hrefs(list) == [i \in 1..Len(list) |-> list[i].Href]

AssetURL(v, file) == URLOf(v.config.BuildDirectory, file)

\* Neither in the PreloadedAssets registry nor suppressed by a resolver.
Eligible(v, url) == url \notin DOMAIN v.preloadedAssets /\ ~Suppressed(v, url)

\* The URLs of the file and of the css paths of the chunks of keys that
\* have a file.
ChunkURLs(v, m, keys) ==
    UNION { {AssetURL(v, m[k].file)}
            \cup (IF Has(m[k], "css")
                  THEN { AssetURL(v, m[k].css[i]) : i \in DOMAIN m[k].css }
                  ELSE {}) :
            k \in { x \in keys \cap DOMAIN m : Has(m[x], "file") } }

\* The keys of the dynamicImports of the entries present in the manifest.
EntryDynamicImports(m, entrypoints) ==
    Flatten([i \in 1..Len(entrypoints) |->
                IF InManifest(m, entrypoints[i])
                   /\ Has(m[entrypoints[i]], "dynamicImports")
                THEN m[entrypoints[i]].dynamicImports
                ELSE <<>>])

\* Those of them whose chunk is in the manifest with a .js or .css file.
AcceptedDynamicImports(m, entrypoints) ==
    SelectSeq(EntryDynamicImports(m, entrypoints),
              LAMBDA k : TopLevelAccepted(m, k))

\* C7 as stated: every chunk with a file reachable from an entry's
\* dynamicImports through imports and dynamicImports, and every css path of
\* such a chunk, is an asset of the result unless its URL is in the registry
\* or a preload resolver suppresses it.
C7_AllReachable ==
    Collected =>
        \A u \in ChunkURLs(vite, manifest,
                           Reach(manifest,
                                 Range(EntryDynamicImports(manifest, call.entrypoints)))) :
            Eligible(vite, u) => u \in Range(Hrefs(call.assets))

\* C7 amended: the same for the chunks reachable from those keys of an
\* entry's dynamicImports whose own chunk is in the manifest with a file
\* ending in .js or .css; the other keys of an entry's dynamicImports are
\* skipped together with what is reachable only through them.
C7_AcceptedReachable ==
    Collected =>
        \A u \in ChunkURLs(vite, manifest,
                           Reach(manifest,
                                 Range(AcceptedDynamicImports(manifest, call.entrypoints)))) :
            Eligible(vite, u) => u \in Range(Hrefs(call.assets))

\* k1 names k2, k2 imports k3 and has two css paths: four assets.
C7_Witness ==
    /\ Collected
    /\ call.entrypoints = <<K1>>
    /\ vite = NewVite
    /\ Has(manifest[K1], "dynamicImports")
    /\ manifest[K1].dynamicImports = <<K2>>
    /\ Has(manifest[K2], "imports")
    /\ Hrefs(call.assets) = <<AssetURL(vite, BJs), AssetURL(vite, DJs),
                              AssetURL(vite, CCss), AssetURL(vite, DCss)>>

\* The depth-first walk: a chunk's file, then its imports, then its
\* dynamicImports, then its css, each key once.
RECURSIVE DfsKeys(_, _, _)
RECURSIVE DfsChunk(_, _, _)
DfsKeys(m, keys, seen) ==
    IF keys = <<>> THEN [files |-> <<>>, seen |-> seen]
    ELSE IF Head(keys) \in seen THEN DfsKeys(m, Tail(keys), seen)
    ELSE LET sub == IF InManifest(m, Head(keys))
                    THEN DfsChunk(m, Head(keys), seen \cup {Head(keys)})
                    ELSE [files |-> <<>>, seen |-> seen \cup {Head(keys)}]
             rest == DfsKeys(m, Tail(keys), sub.seen)
         IN  [files |-> sub.files \o rest.files, seen |-> rest.seen]

DfsChunk(m, k, seen) ==
    LET field(f) == IF Has(m[k], f) THEN m[k][f] ELSE <<>>
        i == DfsKeys(m, field("imports"), seen)
        d == DfsKeys(m, field("dynamicImports"), i.seen)
    IN  [files |-> (IF Has(m[k], "file") THEN <<m[k].file>> ELSE <<>>)
                     \o i.files \o d.files \o field("css"),
         seen |-> d.seen]

\* The URLs the walk discovers, in order, without those in the registry and
\* those suppressed.
Discovery(v, m, entrypoints) ==
    LET files == DfsKeys(m, AcceptedDynamicImports(m, entrypoints), {}).files
    IN  SelectSeq([i \in 1..Len(files) |-> AssetURL(v, files[i])],
                  LAMBDA u : Eligible(v, u))

C9_SameListTwice ==
    [][ made' = made + 1 /\ call'.op = "collectDynamicImports" =>
          /\ vite' = vite
          /\ \A i \in DOMAIN call'.assets :
                call'.assets[i].Href \notin DOMAIN vite'.preloadedAssets
          /\ Collected /\ call.entrypoints = call'.entrypoints =>
                call'.assets = call.assets ]_vars

\* ------------------------------------------------------------ hot mode

\* A step in which op is called on the instance.
Calls(op) == made' = made + 1 /\ call'.op = op

\* The inline prefetch script of a rendering.
IsPrefetchScript(x) == "loader" \in DOMAIN x

\* The sentinel file exists and holds a text.
SentinelText == Exists(fs, HotFile(vite)) /\ fs[HotFile(vite)].kind = "text"

\* A path that cleaning leaves as it is: no ".." element, no slash at
\* either end.
IsCleanEntry(e) ==
    /\ e # <<>>
    /\ Head(e) # Slash
    /\ e[Len(e)] # Slash
    /\ \A i \in 1..(Len(e) - 1) : ~(e[i] = Dot /\ e[i + 1] = Dot)

\* html is the client tag (a script) followed by one content tag per
\* target, in order, each pointing at its target.
ClientThenEntries(html, client, targets) ==
    /\ Len(html) = 1 + Len(targets)
    /\ IsScriptTag(html[1])
    /\ TagURL(html[1]) = client
    /\ \A i \in DOMAIN targets :
          /\ IsContentTag(html[i + 1])
          /\ TagURL(html[i + 1]) = targets[i]

HotResult(c) ==
    CASE c.op = "IsRunningHot" -> c.result
      [] c.op = "Invoke" ->
            \/ c.err \in {"sentinel unreadable", "invalid URL"}
            \/ /\ c.err = ""
               /\ c.html # <<>>
               /\ HasSuffix(TagURL(c.html[1]), ViteClient)
      [] c.op = "ManifestHash" -> c.err = "" /\ c.hash = NoHash
      [] c.op = "ReactRefresh" -> c.err # "" \/ c.html # <<>>

\* What a call returns when it finds no dev server: IsRunningHot false,
\* Invoke the production tags or a manifest error, ManifestHash the digest
\* of the manifest file if there is one, ReactRefresh the empty string.
ProductionResult(c, files, path) ==
    CASE c.op = "IsRunningHot" -> ~c.result
      [] c.op = "Invoke" ->
            \/ c.err \in {"manifest not found", "manifest unreadable",
                          "manifest not JSON"}
            \/ /\ c.err = ""
               /\ \A i \in DOMAIN c.html :
                     IF IsPrefetchScript(c.html[i]) THEN TRUE
                     ELSE ~HasSuffix(TagURL(c.html[i]), ViteClient)
      [] c.op = "ManifestHash" ->
            IF Exists(files, path)
            THEN c.hash = files[path]
            ELSE c.hash = NoHash
      [] c.op = "ReactRefresh" -> c.err = "" /\ c.html = <<>>

\* C12: the mode is never cached.  Whatever creations and removals of the
\* sentinel file come between the calls of IsRunningHot, Invoke,
\* ManifestHash and ReactRefresh on one instance, each call behaves as hot
\* exactly when the sentinel file exists at the time of that call.
C12_ModeProbedEachCall ==
    [][ made' = made + 1 =>
          IF Exists(fs, HotFile(vite))
          THEN HotResult(call')
          ELSE ProductionResult(call', fs,
                                manifestPath(vite, vite.config.BuildDirectory)) ]_vars

\* A rendering in hot mode by an instance that has rendered in production
\* mode before (it holds the manifest it loaded then).
C12_Witness ==
    /\ call.op = "Invoke"
    /\ call.err = ""
    /\ call.html # <<>>
    /\ HasSuffix(TagURL(call.html[1]), ViteClient)
    /\ vite.manifests # EmptyMap

\* ----------------------------------------------------- manifest store

\* The resolved manifest path of a call's buildDirectory argument.
PathOfCall(v, c) == manifestPath(v, BuildDirectoryOr(v, c.buildDirectory))

\* C13: after one successful load of the manifest at resolved path P, every
\* later load of P on the same instance returns that same manifest without
\* reading the file again, even if the file has changed or is gone, and no
\* operation of the instance, Flush included, removes it from the cache: a
\* cached manifest stays as it is in every step, and an Asset or Invoke call
\* on a cached path answers from the cached manifest whatever the file is.
C13_CachedManifestKept ==
    [][ /\ \A path \in DOMAIN vite.manifests :
              /\ path \in DOMAIN vite'.manifests
              /\ vite'.manifests[path] = vite.manifests[path]
        /\ Calls("Asset") /\ PathOfCall(vite, call') \in DOMAIN vite.manifests =>
              LET m == vite.manifests[PathOfCall(vite, call')]
                  dir == BuildDirectoryOr(vite, call'.buildDirectory)
              IN  IF call'.asset \in DOMAIN m
                  THEN /\ call'.err = ""
                       /\ call'.url = URLOf(dir, m[call'.asset].file)
                  ELSE call'.err = "chunk not found"
        /\ Calls("Invoke") /\ PathOfCall(vite, call') \in DOMAIN vite.manifests =>
              LET m == vite.manifests[PathOfCall(vite, call')]
                  dir == BuildDirectoryOr(vite, call'.buildDirectory)
              IN  /\ call'.err = ""
                  /\ Range(ContentURLs(call'.html)) =
                        { URLOf(dir, m[e].file) :
                             e \in Range(call'.entrypoints) \cap DOMAIN m }
                        \cup UNION { Range(CssURLs(dir, m[e])) :
                                e \in Range(call'.entrypoints) \cap DOMAIN m } ]_vars

\* An Asset call answered from the cached manifest of the first build after
\* the file was replaced by the manifest of a later build.
C13_Witness ==
    /\ call.op = "Asset"
    /\ call.asset = MainJs
    /\ call.err = ""
    /\ call.url = URLOf(S("build"), AJs)
    /\ call.prev.op \in {"Asset", "Invoke"}
    /\ call.prev.err = ""
    /\ fs[manifestPath(vite, S("build"))] = JsonFile(Manifest2)

\* The manifest file of path is missing or is not valid JSON.
NoValidManifest(files, path) ==
    IF Exists(files, path) THEN files[path].kind # "json" ELSE TRUE

\* C14: in production mode, when the manifest file is absent or is not
\* valid JSON and no manifest is cached for its path, Invoke returns an
\* error and the empty string and leaves the registry of preloaded assets
\* and the manifest cache unchanged; an Invoke made when a valid file is
\* there and nothing is cached succeeds and renders from that file.
C14_FailedLoadLeavesNoTrace ==
    [][ Calls("Invoke") /\ ~Exists(fs, HotFile(vite))
            /\ PathOfCall(vite, call') \notin DOMAIN vite.manifests =>
          IF NoValidManifest(fs, PathOfCall(vite, call'))
          THEN /\ call'.err \in {"manifest not found", "manifest not JSON"}
               /\ call'.html = <<>>
               /\ vite'.preloadedAssets = vite.preloadedAssets
               /\ vite'.manifests = vite.manifests
          ELSE /\ call'.err = ""
               /\ vite'.manifests[PathOfCall(vite, call')] =
                     fs[PathOfCall(vite, call')].manifest ]_vars

\* An Invoke of main.js that renders tags, made right after an Invoke of
\* the same build directory that failed for want of a valid manifest.
C14_Witness ==
    /\ call.op = "Invoke"
    /\ call.err = ""
    /\ call.entrypoints = <<MainJs>>
    /\ Len(call.html) >= 2
    /\ call.prev.op = "Invoke"
    /\ call.prev.err \in {"manifest not found", "manifest not JSON"}
    /\ call.prev.buildDirectory = call.buildDirectory

\* A manifest is cached for path, or a valid manifest file is at path.
Loads(v, files, path) ==
    IF path \in DOMAIN v.manifests THEN TRUE
    ELSE IF Exists(files, path) THEN files[path].kind = "json" ELSE FALSE

\* The manifest a call on path works on.
LoadedManifest(v, files, path) ==
    IF path \in DOMAIN v.manifests THEN v.manifests[path] ELSE files[path].manifest

\* list without the keys m does not have.
RECURSIVE PresentKeys(_, _)
PresentKeys(m, list) ==
    IF list = <<>> THEN <<>>
    ELSE IF Head(list) \in DOMAIN m
    THEN <<Head(list)>> \o PresentKeys(m, Tail(list))
    ELSE PresentKeys(m, Tail(list))

\* m with the keys m does not have removed from every imports and
\* dynamicImports list.
WithoutAbsentKeys(m) ==
    [k \in DOMAIN m |->
        [f \in DOMAIN m[k] |->
            IF f \in {"imports", "dynamicImports"}
            THEN PresentKeys(m, m[k][f])
            ELSE m[k][f]]]

\* C15: in production mode Asset(key) returns an error when key is absent
\* from the manifest, whereas Invoke skips an entry key, import key or
\* dynamic-import key that is absent from the manifest without an error:
\* it returns what it returns when the absent keys are taken out of the
\* entry list and of every imports and dynamicImports list.
C15_AbsentKeys ==
    [][ /\ Calls("Asset") /\ ~Exists(fs, HotFile(vite))
            /\ Loads(vite, fs, PathOfCall(vite, call')) =>
              (call'.asset \notin
                    DOMAIN LoadedManifest(vite, fs, PathOfCall(vite, call'))
                 <=> call'.err = "chunk not found")
        /\ Calls("Invoke") /\ ~Exists(fs, HotFile(vite))
            /\ Loads(vite, fs, PathOfCall(vite, call')) =>
              LET m == LoadedManifest(vite, fs, PathOfCall(vite, call'))
                  dir == BuildDirectoryOr(vite, call'.buildDirectory)
              IN  /\ call'.err = ""
                  /\ call'.html =
                        generateProductionTags(
                            vite, PresentKeys(m, call'.entrypoints), dir,
                            WithoutAbsentKeys(m),
                            CHOOSE o \in Lookups(WithoutAbsentKeys(m)) : TRUE).html
        ]_vars

\* A rendering of the absent k4 and of main.js, whose imports and
\* dynamicImports name k4 as well: the tags of main.js, the preload of its
\* import k2 and a prefetch script for its dynamic import k3.
C15_Witness ==
    /\ call.op = "Invoke"
    /\ call.err = ""
    /\ call.entrypoints = <<K4, MainJs>>
    /\ call.buildDirectory = <<>>
    /\ vite.manifests[manifestPath(vite, S("build"))] = Manifest1
    /\ PreloadURLs(call.html) = <<URLOf(S("build"), AJs), URLOf(S("build"), BJs),
                                  URLOf(S("build"), CCss)>>
    /\ ContentURLs(call.html) = <<URLOf(S("build"), AJs), URLOf(S("build"), CCss)>>
    /\ IsPrefetchScript(call.html[Len(call.html)])
    /\ Len(call.html[Len(call.html)].assets) = 1

\* ------------------------------------------------------ prefetch script

\* The prefetch scripts of a rendering.
PrefetchScripts(html) == SelectSeq(html, IsPrefetchScript)

\* The instance as it was configured: the one of the state without what the
\* renderings stored in it.
AsConfigured(v) == [v EXCEPT !.preloadedAssets = EmptyMap, !.manifests = EmptyMap]

\* C16: whenever a prefetch script is emitted, it is the waterfall loader,
\* with loadNext called with the configured concurrency, exactly when the
\* strategy is waterfall, and the all-at-once loader exactly when the
\* strategy is aggressive; no output contains both loaders.
C16_OneLoaderOfTheStrategy ==
    Called =>
        /\ Len(PrefetchScripts(call.html)) <= 1
        /\ \A i \in DOMAIN call.html :
              IsPrefetchScript(call.html[i]) =>
                  /\ call.html[i].loader \in {"waterfall", "aggressive"}
                  /\ call.html[i].loader = vite.prefetchStrategy
                  /\ call.html[i].loader = "waterfall" =>
                        /\ call.html[i].count = vite.prefetchConcurrently
                        /\ \A c \in Concurrencies :
                              AsConfigured(vite) \in
                                  { UseWaterfallPrefetching(NewVite, <<c>>),
                                    Prefetch(NewVite, <<c>>, S("DOMContentLoaded")) }
                              => call.html[i].count = c
                        /\ AsConfigured(vite) = UseWaterfallPrefetching(NewVite, <<>>)
                              => call.html[i].count = DefaultPrefetchConcurrently

\* A waterfall script with the concurrency 5 given to Prefetch, for the two
\* dynamic imports of k1.
C16_Witness ==
    /\ Called
    /\ AsConfigured(vite) = Prefetch(NewVite, <<5>>, S("DOMContentLoaded"))
    /\ Len(PrefetchScripts(call.html)) = 1
    /\ PrefetchScripts(call.html)[1].loader = "waterfall"
    /\ PrefetchScripts(call.html)[1].count = 5
    /\ Len(PrefetchScripts(call.html)[1].assets) >= 2

\* C17: a production Invoke appends a prefetch script if and only if a
\* prefetch strategy (waterfall or aggressive) is set and the deduplicated
\* list of dynamic-import assets is not empty; with the strategy unset no
\* script is emitted even when the entries have dynamic imports.  The
\* script comes last and carries that list.
C17_ScriptIffStrategyAndAssets ==
    Called =>
        /\ Len(PrefetchScripts(call.html)) = 1
              <=> /\ vite.prefetchStrategy \in {"waterfall", "aggressive"}
                  /\ Discovery(vite, manifest, call.entrypoints) # <<>>
        /\ \A i \in DOMAIN call.html :
              IsPrefetchScript(call.html[i]) =>
                  /\ i = Len(call.html)
                  /\ [j \in DOMAIN call.html[i].assets |-> call.html[i].assets[j].href]
                        = FirstOccurrences(Discovery(vite, manifest, call.entrypoints))

\* A rendering of k1 and k2 where k1's only dynamic import is k2: a strategy
\* is set and the entries have a dynamic import, yet no script is emitted,
\* because k2's file was preloaded by the rendering itself.
C17_Witness ==
    /\ Called
    /\ vite.prefetchStrategy = "aggressive"
    /\ call.entrypoints = <<K1, K2>>
    /\ EntryDynamicImports(manifest, call.entrypoints) = <<K2>>
    /\ manifest[K2].file = BJs
    /\ PrefetchScripts(call.html) = <<>>
    /\ Len(call.html) = 4

\* The page's loader was given a concurrency of at least one.
LoaderOn == page.phase # "none" /\ page.count >= 1

\* The last step was a timeout of loadNext set by a completed or failed load.
ContinuationRan == page.step.op = "loadNext" /\ page.step.from = "link"

\* No asset occurs twice in seq.
RequestedOnce(seq) == \A i, j \in DOMAIN seq : seq[i] = seq[j] => i = j

\* At most page.count links are in flight and no asset is requested twice.
WindowKept ==
    /\ Cardinality(page.inflight) <= page.count
    /\ RequestedOnce(page.requested)
    /\ \A i \in DOMAIN page.requested :
          \E j \in DOMAIN page.assets : page.requested[i] = page.assets[j]

\* C18 as stated: with a concurrency N >= 1, at most N links are in flight,
\* no asset is requested twice, and a load that completes or fails starts
\* exactly one further asset when the queue was non-empty at that moment and
\* none when it was empty.  Violated: two loads that complete before the
\* timeout of the first runs find one asset between them.
C18_EachCompletionStartsOne ==
    LoaderOn =>
        /\ WindowKept
        /\ ContinuationRan =>
              page.step.started = (IF page.step.left > 0 THEN 1 ELSE 0)

\* C18 amended: with a concurrency N >= 1, at most N links are in flight, no
\* asset is requested twice, and the loadNext timeout that a completed or
\* failed load sets starts exactly one further asset when the queue is
\* non-empty at the moment the timeout runs and none when it is empty then;
\* a load whose link was made from the last asset of the queue sets none.
C18_WaterfallWindow ==
    LoaderOn =>
        /\ WindowKept
        /\ ContinuationRan =>
              page.step.started = (IF page.step.before > 0 THEN 1 ELSE 0)
        /\ \A link \in page.inflight :
              ~link.chained => page.queue = <<>>

\* Two loads completed while one asset was left: the timeout of the second
\* found the queue empty and started nothing.
C18_Witness ==
    /\ LoaderOn
    /\ ContinuationRan
    /\ page.step.left > 0
    /\ page.step.before = 0
    /\ page.step.started = 0
    /\ Len(page.requested) = Len(page.assets)

\* C19: with a concurrency N >= 1, once the prefetch event has fired, and
\* when every timeout runs and every started load completes or fails, every
\* asset of the list is eventually requested and the queue becomes empty.
C19_AllRequested ==
    (page.phase = "fired" /\ page.count >= 1)
        ~> (/\ page.phase = "running"
            /\ page.queue = <<>>
            /\ \A j \in DOMAIN page.assets :
                  \E i \in DOMAIN page.requested :
                      page.requested[i] = page.assets[j])

\* A list longer than the concurrency was requested to its last asset.
C19_Witness ==
    /\ LoaderOn
    /\ Len(page.assets) > page.count
    /\ page.phase = "running"
    /\ page.queue = <<>>
    /\ Len(page.requested) = Len(page.assets)
    /\ page.inflight = {}
    /\ page.timers = <<>>

\* The number a decimal numeral writes.
RECURSIVE DecimalValue(_)
DecimalValue(text) ==
    IF text = <<>>
    THEN 0
    ELSE 10 * DecimalValue(SubSeq(text, 1, Len(text) - 1))
         + (CHOOSE d \in 0..9 : DecimalDigits[d + 1] = text[Len(text)])

\* text is the decimal numeral of n: a minus sign for a negative number, then
\* digits without a leading zero.
IsNumeralOf(text, n) ==
    IF n < 0
    THEN /\ Len(text) >= 2
         /\ text[1] = "-"
         /\ text[2] # "0"
         /\ DecimalValue(Tail(text)) = 0 - n
    ELSE /\ Len(text) >= 1
         /\ Len(text) > 1 => text[1] # "0"
         /\ DecimalValue(text) = n

\* {"defer": true, "disabled": false, "hidden": nil, "data-value": 123}
DocumentedAttributes ==
    [key \in AttributeKeys |->
        IF key = "defer" THEN Bool(TRUE)
        ELSE IF key = "disabled" THEN Bool(FALSE)
        ELSE IF key = "hidden" THEN Nil
        ELSE IntValue(123)]

\* The items parseAttributes made for key.
ItemsOf(result, key) == { item \in result : item.key = key }

\* C20: parseAttributes renders exactly one item per key whose value is
\* neither nil nor false: the bare key when the value is true, and
\* key="value" otherwise, the value being the string itself or the decimal
\* numeral of the number; a key whose value is nil or false produces nothing,
\* and the map {defer: true, disabled: false, hidden: nil, data-value: 123}
\* renders as defer and data-value="123".
C20_OneItemPerKey ==
    call.op = "parseAttributes" =>
        /\ \A item \in call.result : item.key \in DOMAIN call.attributes
        /\ \A key \in DOMAIN call.attributes :
            \E value \in {call.attributes[key]} :
              IF value.t = "nil" \/ (value.t = "bool" /\ value.v = S("false"))
              THEN ItemsOf(call.result, key) = {}
              ELSE
                /\ Cardinality(ItemsOf(call.result, key)) = 1
                /\ \A item \in ItemsOf(call.result, key) :
                    IF value.t = "bool"
                    THEN item.bare
                    ELSE /\ ~item.bare
                         /\ IF value.t = "int"
                            THEN IsNumeralOf(item.value, value.v)
                            ELSE item.value = value.v
        /\ call.attributes = DocumentedAttributes
           => call.result =
                {[key |-> "defer", bare |-> TRUE, value |-> <<>>],
                 [key |-> "data-value", bare |-> FALSE,
                  value |-> <<"1", "2", "3">>]}

\* A map with all four kinds of value was rendered: true, false, nil and a
\* number, with two items as the result.
C20_Witness ==
    /\ call.op = "parseAttributes"
    /\ \E a, b, c, d \in DOMAIN call.attributes :
        /\ call.attributes[a] = Bool(TRUE)
        /\ call.attributes[b] = Bool(FALSE)
        /\ call.attributes[c] = Nil
        /\ call.attributes[d].t = "int"
    /\ Cardinality(call.result) = 2

\* url is some text, a dot, a style suffix, and then rest.
EndsInStyleSuffixThen(url, rest) ==
    \E prefix \in { SubSeq(url, 1, n) : n \in 0..Len(url) } :
        \E suffix \in CssSuffixes : url = prefix \o <<Dot, suffix>> \o rest

\* The tails of url that are a query string: a question mark and what follows.
QueryStrings(url) ==
    { SubSeq(url, n, Len(url)) : n \in { i \in 1..Len(url) : url[i] = QMark } }

NoDot(text) == \A i \in DOMAIN text : text[i] # Dot

Classified == call.op = "makeTagForChunk"

\* The tag is a stylesheet link when style holds of the URL, and a module
\* script otherwise.
StylesheetIff(style) ==
    IF style
    THEN IsStylesheetTag(call.tag) /\ HasAttr(call.tag, "href", call.url)
    ELSE /\ IsScriptTag(call.tag)
         /\ HasAttr(call.tag, "src", call.url)
         /\ HasAttr(call.tag, "type", S("module"))

\* C21 as stated: a URL is rendered as a stylesheet link exactly when it ends
\* in a style suffix, optionally followed by any query string, and as a module
\* script otherwise.  Violated: a query string with a dot makes it a script.
C21_StyleWithAnyQuery ==
    Classified =>
        StylesheetIff(\/ EndsInStyleSuffixThen(call.url, <<>>)
                      \/ \E q \in QueryStrings(call.url) :
                            EndsInStyleSuffixThen(call.url, q))

\* C21 amended: a URL is rendered as a stylesheet link exactly when it ends
\* in a style suffix, optionally followed by a query string that holds no
\* dot; every other URL, the empty one included, is rendered as a module
\* script.
C21_StyleWithDotlessQuery ==
    Classified =>
        StylesheetIff(\/ EndsInStyleSuffixThen(call.url, <<>>)
                      \/ \E q \in QueryStrings(call.url) :
                            NoDot(q) /\ EndsInStyleSuffixThen(call.url, q))

\* a.css?a was rendered as a stylesheet link.
C21_Witness ==
    /\ Classified
    /\ call.url = <<"a", Dot, "css", QMark, "a">>
    /\ IsStylesheetTag(call.tag)

\* The value for key of the last resolver of the list that returns a map with
\* that key for url, and default (<<>> when there is none) otherwise.
RECURSIVE LastValue(_, _, _, _)
LastValue(resolvers, url, key, default) ==
    IF resolvers = <<>> THEN default
    ELSE LET last == resolvers[Len(resolvers)]
         IN  IF /\ \A f \in last.nilOn : ~HasSuffix(url, f)
                /\ key \in DOMAIN last.attrs
             THEN <<last.attrs[key]>>
             ELSE LastValue(SubSeq(resolvers, 1, Len(resolvers) - 1),
                            url, key, default)

\* tag renders key as parseAttributes renders value: nothing for no value,
\* nil and false, the bare key for true, key="value" otherwise.
RendersAs(tag, key, value) ==
    IF value = <<>> THEN Item(tag, key) = {}
    ELSE IF value[1].t = "nil" THEN Item(tag, key) = {}
    ELSE IF value[1].t = "bool"
         THEN Item(tag, key) = IF value[1].v = S("true")
                               THEN {[key |-> key, bare |-> TRUE, value |-> <<>>]}
                               ELSE {}
    ELSE Item(tag, key) = {[key |-> key, bare |-> FALSE, value |-> value[1].v]}

TagKeys ==
    {"type", "src", "rel", "as", "href", "nonce", "integrity", "crossorigin",
     "async"}

\* The integrity a new instance copies from the chunk.
ChunkIntegrity(chunk) ==
    IF "integrity" \in DOMAIN chunk THEN <<chunk.integrity>> ELSE <<>>

\* The built-in attributes of a script tag, a stylesheet tag and a preload
\* tag of url.
ScriptDefault(v, url, chunk, key) ==
    CASE key = "type" -> <<Str(S("module"))>>
      [] key = "src" -> <<Str(url)>>
      [] key = "nonce" -> <<Str(v.nonce)>>
      [] key = "integrity" -> ChunkIntegrity(chunk)
      [] OTHER -> <<>>

StyleDefault(v, url, chunk, key) ==
    CASE key = "rel" -> <<Str(S("stylesheet"))>>
      [] key = "href" -> <<Str(url)>>
      [] key = "nonce" -> <<Str(v.nonce)>>
      [] key = "integrity" -> ChunkIntegrity(chunk)
      [] OTHER -> <<>>

PreloadDefault(v, url, chunk, key, style) ==
    CASE key = "rel" -> <<Str(IF style THEN S("preload") ELSE S("modulepreload"))>>
      [] key = "as" -> <<Str(IF style THEN S("style") ELSE S("script"))>>
      [] key = "href" -> <<Str(url)>>
      [] key = "nonce" -> <<Str(v.nonce)>>
      [] key = "crossorigin" ->
            LastValue(IF style THEN v.styleTagAttributeResolvers
                               ELSE v.scriptTagAttributeResolvers,
                      url, "crossorigin", <<>>)
      [] key = "integrity" -> ChunkIntegrity(chunk)
      [] OTHER -> <<>>

TagsMade == call.op = "makeTags"

\* The url of the call is the stylesheet's.
OfStyle == call.url[Len(call.url)] = "css"

\* C22: every attribute of a script, stylesheet or preload tag is the value of
\* the last-registered resolver of that kind that returns its key, and the
\* built-in default when no resolver returns it; a preload tag's built-in
\* crossorigin is the one resolved for the script or stylesheet tag.
C22_LaterResolverWins ==
    TagsMade =>
        /\ call.tag.el = (IF OfStyle THEN "link" ELSE "script")
        /\ \A key \in TagKeys :
              RendersAs(call.tag, key,
                        IF OfStyle
                        THEN LastValue(vite.styleTagAttributeResolvers, call.url, key,
                                       StyleDefault(vite, call.url, call.chunk, key))
                        ELSE LastValue(vite.scriptTagAttributeResolvers, call.url, key,
                                       ScriptDefault(vite, call.url, call.chunk, key)))
        /\ \A item \in call.tag.items : item.key \in TagKeys
        /\ call.preload # NoTag =>
              /\ \A key \in TagKeys :
                    RendersAs(call.preload, key,
                              LastValue(vite.preloadTagAttributeResolvers, call.url, key,
                                        PreloadDefault(vite, call.url, call.chunk,
                                                       key, OfStyle)))
              /\ \A item \in call.preload.items : item.key \in TagKeys

\* Two script resolvers returned async and a chunk had an integrity: the
\* script tag carries the later resolver's bare async, the first one's type
\* in place of module, and the chunk's integrity.
C22_Witness ==
    /\ TagsMade
    /\ vite.scriptTagAttributeResolvers = <<TypeResolver, AsyncResolver>>
    /\ ~OfStyle
    /\ [key |-> "async", bare |-> TRUE, value |-> <<>>] \in call.tag.items
    /\ HasAttr(call.tag, "type", S("text"))
    /\ HasAttr(call.tag, "integrity", S("h1"))
    /\ call.preload # NoTag
    /\ HasAttr(call.preload, "crossorigin", S("anonymous"))

\* The three tags of the call: the script or stylesheet tag and the preload.
TagsOfCall == {call.tag, call.preload}

\* The chunk of the call has a field under the configured integrity key.
HasIntegrityField ==
    vite.integrityKey # "" /\ vite.integrityKey \in DOMAIN call.chunk

\* What the chunk holds under the integrity key.
IntegrityField == FieldValue(call.chunk, vite.integrityKey)

\* C23 as stated: without resolvers a script, stylesheet or preload tag
\* carries integrity="<the chunk's value>" exactly when the integrity key is
\* non-empty and the chunk has a field under it.  Violated: a field that is
\* null or false is left out.
C23_IntegrityIffField ==
    TagsMade =>
        \A tag \in TagsOfCall :
            IF HasIntegrityField
            THEN Cardinality(Item(tag, "integrity")) = 1
            ELSE Item(tag, "integrity") = {}

\* C23 amended: without resolvers a script, stylesheet or preload tag carries
\* an integrity attribute exactly when the integrity key is non-empty and the
\* chunk has a field under it whose value is neither null nor false; it is
\* integrity="<value>" for a string and the bare attribute for true; with an
\* empty integrity key no tag carries one.
C23_IntegrityIffValue ==
    TagsMade =>
        \A tag \in TagsOfCall :
            /\ tag # NoTag
            /\ IF /\ HasIntegrityField
                  /\ IntegrityField.t # "nil"
                  /\ IntegrityField # Bool(FALSE)
               THEN Item(tag, "integrity") =
                      {IF IntegrityField = Bool(TRUE)
                       THEN [key |-> "integrity", bare |-> TRUE, value |-> <<>>]
                       ELSE [key |-> "integrity", bare |-> FALSE,
                             value |-> IntegrityField.v]}
               ELSE Item(tag, "integrity") = {}

\* A script tag and its preload carry the chunk's integrity string under the
\* default key.
C23_Witness ==
    /\ TagsMade
    /\ vite.integrityKey = "integrity"
    /\ IsScriptTag(call.tag)
    /\ IsPreloadTag(call.preload)
    /\ \A tag \in TagsOfCall : HasAttr(tag, "integrity", S("h1"))

\* The keys of the registry before and after a step.
Registry == DOMAIN vite.preloadedAssets
RegistryAfter == DOMAIN vite'.preloadedAssets

\* C24: a step changes the registry's keys only in two ways: a rendering adds
\* the URLs of the preload tags it emits, which is none in hot mode and none
\* when it fails, and Flush leaves the registry empty; every other call and
\* every change of the files leaves it as it is, and no stored attribute map
\* has an href key.  The keys are thus the URLs preloaded since the instance
\* was created or last flushed.
C24_RegistryFollowsPreloads ==
    [][/\ IF Calls("Flush") THEN RegistryAfter = {}
          ELSE IF Calls("Invoke")
          THEN /\ RegistryAfter = Registry \cup Range(PreloadURLs(call'.html))
               /\ Exists(fs, HotFile(vite)) \/ call'.err # "" =>
                     RegistryAfter = Registry
          ELSE RegistryAfter = Registry
        /\ \A url \in RegistryAfter :
              "href" \notin DOMAIN vite'.preloadedAssets[url]]_vars

\* A rendering after a Flush: the registry holds the URLs of its preload
\* tags, and an asset preloaded before the Flush is not among them.
C24_Witness ==
    /\ call.op = "Invoke"
    /\ call.prev.op = "Flush"
    /\ call.err = ""
    /\ call.entrypoints = <<MainJs>>
    /\ Registry = Range(PreloadURLs(call.html))
    /\ Cardinality(Registry) >= 2
    /\ URLOf(S("build"), DJs) \notin Registry

\* ------------------------------------------------------ C25: the settings

\* The strategy a logged call selects.
Selected(e) ==
    CASE e.op = "UseWaterfallPrefetching" -> "waterfall"
      [] e.op = "UseAggressivePrefetching" -> "aggressive"
      [] e.op = "Prefetch" -> IF e.concurrency = <<>> THEN "aggressive" ELSE "waterfall"
      [] OTHER -> e.strategy

\* The logged calls that select waterfall and supply an integer.
Supplying(log) ==
    { i \in DOMAIN log : Selected(log[i]) = "waterfall" /\ log[i].concurrency # <<>> }

Max(set) == CHOOSE x \in set : \A y \in set : y <= x

\* C25: after any sequence of UseWaterfallPrefetching,
\* UseAggressivePrefetching, Prefetch and UsePrefetchStrategy calls the
\* strategy is the one the last call selected, and the concurrency is the
\* integer most recently supplied to a waterfall selection, or 3 when none was.
C25_LastSettingWins ==
    call.log # <<>> =>
        /\ vite.prefetchStrategy = Selected(call.log[Len(call.log)])
        /\ vite.prefetchConcurrently =
               IF Supplying(call.log) = {} THEN 3
               ELSE call.log[Max(Supplying(call.log))].concurrency[1]

\* A waterfall selection that supplies no integer follows an aggressive one
\* that follows a waterfall selection supplying 5.
C25_Witness ==
    /\ Len(call.log) = 3
    /\ Selected(call.log[1]) = "waterfall" /\ call.log[1].concurrency = <<5>>
    /\ Selected(call.log[2]) = "aggressive"
    /\ call.log[3].op = "UseWaterfallPrefetching" /\ call.log[3].concurrency = <<>>
    /\ vite.prefetchConcurrently = 5

\* -------------------------------------------------- C26: MergeEntryPoints

\* C26: MergeEntryPoints(xs) sets the entry points to the current list
\* followed by xs with duplicates removed, the first occurrence of each key
\* kept in order; merging the same list again leaves the entry points
\* unchanged.
C26_MergeKeepsFirst ==
    [][Calls("MergeEntryPoints") =>
          /\ vite'.config.EntryPoints =
                 FirstOccurrences(vite.config.EntryPoints \o call'.entryPoints)
          /\ (call.op = "MergeEntryPoints" /\ call.entryPoints = call'.entryPoints
                 => vite'.config.EntryPoints = vite.config.EntryPoints)]_vars

\* A list with a repeated key was merged into a list that held one of its
\* keys already.
C26_Witness ==
    /\ made = 3
    /\ call.op = "MergeEntryPoints"
    /\ call.entryPoints = <<UpJs, AppCss, UpJs>>
    /\ vite.config.EntryPoints = <<AppCss, MainJs, UpJs>>

\* ------------------------------------- C27: preloaded, hence not prefetched

\* url serves the chunk file from some directory.
ServesFile(url, file) == HasSuffix(url, <<Slash>> \o file)

\* The chunk files that html has a preload tag for, and those its prefetch
\* script lists.
PreloadedFiles(html, files) ==
    { f \in files : \E url \in Range(PreloadURLs(html)) : ServesFile(url, f) }

PrefetchedFiles(html, files) ==
    { f \in files : \E i \in DOMAIN html :
          /\ IsPrefetchScript(html[i])
          /\ \E j \in DOMAIN html[i].assets : ServesFile(html[i].assets[j].href, f) }

RegistryChunkFiles == {AJs, BJs, DJs, EJs, CCss}

\* C27: whatever build directory Invoke is given, a chunk file that the call
\* emitted a preload tag for is not listed in the prefetch script of the
\* same call.
C27_PreloadedNotPrefetched ==
    call.op = "Invoke" =>
        PreloadedFiles(call.html, RegistryChunkFiles)
            \cap PrefetchedFiles(call.html, RegistryChunkFiles) = {}

\* ------------------------------- C28: the registry lasts across renderings

\* The hrefs that the prefetch script of html lists, in order.
PrefetchHrefs(html) ==
    Flatten([i \in 1..Len(html) |->
                IF IsPrefetchScript(html[i])
                THEN [j \in DOMAIN html[i].assets |-> html[i].assets[j].href]
                ELSE <<>>])

\* The step is a rendering from the manifest.
RendersProduction == Calls("Invoke") /\ call'.err = "" /\ ~Exists(fs, HotFile(vite))

\* C28: a production Invoke lists for prefetching none of the URLs that the
\* registry held before the call, whether or not the call itself emits a
\* preload tag for them, and every other discovered URL that it does not
\* preload and no resolver suppresses; the registry holds what the Invoke
\* calls since the last Flush preloaded, so after Flush the asset is listed
\* again.
C28_RegistryOutlivesCall ==
    [][RendersProduction =>
          /\ Range(PrefetchHrefs(call'.html)) \cap Registry = {}
          /\ PrefetchHrefs(call'.html) =
                 FirstOccurrences(Discovery(vite', RegistryManifest, call'.entrypoints))
          /\ call.op = "Flush" =>
                 Registry = {}]_vars

\* main.js is rendered after an earlier Invoke preloaded d.js, with no Flush
\* between: the call emits no preload tag for d.js and lists e.js only.
C28_Witness ==
    /\ call.op = "Invoke"
    /\ call.prev.op = "Invoke"
    /\ call.err = ""
    /\ call.entrypoints = <<MainJs>>
    /\ call.buildDirectory = <<>>
    /\ URLOf(S("build"), DJs) \in Registry
    /\ URLOf(S("build"), DJs) \notin Range(PreloadURLs(call.html))
    /\ PrefetchHrefs(call.html) = <<URLOf(S("build"), EJs)>>

\* ------------------------------- C29: content tags are not deduplicated

\* How many elements of seq are x.
Occurrences(seq, x) == Cardinality({ i \in DOMAIN seq : seq[i] = x })

\* C29: the content tags of one rendering are those of each rendered entry,
\* one after the other, with nothing left out: a script or stylesheet tag is
\* emitted once for every occurrence of its URL among the entries' own files
\* and css and their imports' css, while the URL has one preload tag (none
\* when a resolver suppresses it).
C29_ContentPerOccurrence ==
    Called =>
        LET entries == Rendered(manifest, call.entrypoints)
            content == Flatten([i \in 1..Len(entries) |->
                                   ContentOf(manifest, call.buildDirectory, entries[i])])
        IN  /\ ContentURLs(call.html) = content
            /\ \A u \in Range(content) :
                  /\ Occurrences(ContentURLs(call.html), u) = Occurrences(content, u)
                  /\ Occurrences(PreloadURLs(call.html), u) =
                         IF Suppressed(vite, u) THEN 0 ELSE 1

\* k1 and k2 both import k3, whose css is d.css, and k1's css lists d.css as
\* well: three stylesheet tags and one preload tag for d.css.
C29_Witness ==
    /\ Called
    /\ call.entrypoints = <<K1, K2>>
    /\ Rendered(manifest, call.entrypoints) = call.entrypoints
    /\ K3 \in DOMAIN manifest
    /\ Has(manifest[K3], "css") /\ manifest[K3].css = <<DCss>>
    /\ Has(manifest[K1], "imports") /\ K3 \in Range(manifest[K1].imports)
    /\ Has(manifest[K2], "imports") /\ K3 \in Range(manifest[K2].imports)
    /\ Has(manifest[K1], "css")
    /\ Occurrences(ContentURLs(call.html), URLOf(S("build"), DCss)) = 3
    /\ Occurrences(PreloadURLs(call.html), URLOf(S("build"), DCss)) = 1

\* --------------------------------------------------------- C30: the nonce

\* C30: every script, stylesheet and preload tag of a rendering carries
\* nonce="<the instance's nonce>", which is nonce="" when no nonce has been
\* set, while the prefetch script carries a nonce attribute only when the
\* nonce is not empty, and then the instance's.
C30_EmptyNonceRendered ==
    Called =>
        \A i \in DOMAIN call.html :
            IF IsPrefetchScript(call.html[i])
            THEN Item(call.html[i], "nonce") =
                     IF vite.nonce = <<>> THEN {}
                     ELSE {[key |-> "nonce", bare |-> FALSE, value |-> vite.nonce]}
            ELSE /\ IsPreloadTag(call.html[i]) \/ IsContentTag(call.html[i])
                 /\ Item(call.html[i], "nonce") =
                        {[key |-> "nonce", bare |-> FALSE, value |-> vite.nonce]}

\* No nonce was set: a script, a stylesheet, preload tags with nonce="" and
\* a prefetch script without a nonce attribute.
C30_Witness ==
    /\ Called
    /\ vite.nonce = <<>>
    /\ \E i, j, k, l \in DOMAIN call.html :
          /\ IsPreloadTag(call.html[i]) /\ HasAttr(call.html[i], "nonce", <<>>)
          /\ IsScriptTag(call.html[j]) /\ HasAttr(call.html[j], "nonce", <<>>)
          /\ IsStylesheetTag(call.html[k]) /\ HasAttr(call.html[k], "nonce", <<>>)
          /\ IsPrefetchScript(call.html[l]) /\ Item(call.html[l], "nonce") = {}

====
